---- MODULE Spec2Model ----
(***************************************************************************)
(* Model of Nuclex.Support.Native's .ini document model: the FileParser    *)
(* (IniDocumentModel.FileParser.cpp) that scans a byte buffer and submits  *)
(* one record per logical line, the chunked allocator it carves records    *)
(* from, and the IniDocumentModel the records are meant to end up in.      *)
(*                                                                         *)
(* Pointers are integers: an address inside the file buffer is             *)
(* fileBegin + offset, nullptr is 0.  Every iteration of a parser loop is  *)
(* one step; pc tells which loop the parser is in.                         *)
(***************************************************************************)
EXTENDS Integers, Sequences, FiniteSets, TLC

\* ------------------------------------------------------------------------
\* Bytes the parser distinguishes
\* ------------------------------------------------------------------------
TAB == 9
LF == 10
CR == 13
SPACE == 32
QUOTE == 34
HASH == 35
SEMICOLON == 59
EQUALS == 61
LBRACKET == 91
RBRACKET == 93

nullptr == 0

\* ------------------------------------------------------------------------
\* Sizes of the build (LP64: pointers and std::size_t are 8 bytes)
\* ------------------------------------------------------------------------
AllocationChunkSize == 4096
SizeOfLine == 32
SizeOfSectionLine == 48
SizeOfPropertyLine == 64
AlignOfLine == 8

\* ------------------------------------------------------------------------
\* Bounds of the model
\* ------------------------------------------------------------------------
\* longest buffer of the exhaustively enumerated inputs
MaxLen == 4
\* longest section / property name and value of the shaped inputs
MaxNameLen == 1
\* longest buffer of the exhaustively enumerated inputs of the termination check
MaxLiveLen == 3
\* address at which the caller's file buffer lies
fileBegin == 1000

\* ------------------------------------------------------------------------
\* Inputs
\* ------------------------------------------------------------------------
\* one byte of each class the parser tells apart (97 is the letter a)
Alphabet == {LF, SPACE, QUOTE, SEMICOLON, EQUALS, LBRACKET, RBRACKET, 97}

SeqsUpTo(S, n) == UNION {[1..k -> S] : k \in 0..n}

\* names and values made of the letters a and b
Names == SeqsUpTo({97, 98}, MaxNameLen) \ {<< >>}

\* the "ambiguous cases" listed at the top of the parser's source file
AmbiguousCases == {
    << 91, 34, 72, 101, 108, 108, 111, 93, 34 >>,
    << 91, 87, 111, 114, 108, 100 >>,
    << 91, 70, 111, 111, 93, 32, 61, 32, 66, 97, 114 >>,
    << 91, 87, 111, 111, 112, 93, 91, 87, 111, 111, 112, 93 >>,
    << 91, 70, 111, 111, 93, 32, 66, 97, 114, 32, 61, 32, 66, 97, 122 >>,
    << 91, 91, 89, 97, 121, 93 >>,
    << 70, 111, 111, 32, 61, 32, 66, 97, 114, 32, 61, 32, 66, 97, 122 >>,
    << 91, 89, 97, 121, 32, 61, 32, 78, 97, 121, 93 >>,
    << 34, 72, 101, 108, 108, 111 >>,
    << 70, 111, 111, 32, 61, 32, 91, 66, 97, 114, 93 >>,
    << 70, 111, 111, 32, 61, 32, 93, 93, 91, 66, 97, 114 >>,
    << 34, 70, 111, 111, 34, 32, 66, 97, 114, 32, 61, 32, 66, 97, 122 >>,
    << 70, 111, 111, 32, 61, 32, 34, 66, 97, 114, 34, 32, 66, 97, 122 >> }

\* [S] N = V
SectionThenProperty(S, N, V) ==
    <<LBRACKET>> \o S \o <<RBRACKET, SPACE>> \o N \o <<SPACE, EQUALS, SPACE>> \o V

\* [A][B]
TwoSections(A, B) ==
    <<LBRACKET>> \o A \o <<RBRACKET, LBRACKET>> \o B \o <<RBRACKET>>

\* [X   (a section bracket that is never closed)
OpenSection(X) == <<LBRACKET>> \o X

\* [X] = V
SectionAssigned(X, V) ==
    <<LBRACKET>> \o X \o <<RBRACKET, SPACE, EQUALS, SPACE>> \o V

\* N="V"=   (a second equals sign after a closed quoted value)
QuotedValueThenEquals(N, V) ==
    N \o <<EQUALS, QUOTE>> \o V \o <<QUOTE, EQUALS>>

\* [X], [X] again on the next line, then N=V on a third line
SectionDeclaredTwice(X, N, V) ==
    <<LBRACKET>> \o X \o <<RBRACKET, LF, LBRACKET>> \o X \o <<RBRACKET, LF>>
        \o N \o <<EQUALS>> \o V

ShapedInputs ==
    {SectionThenProperty(S, N, V) : S \in Names, N \in Names, V \in Names}
    \cup {SectionDeclaredTwice(X, N, V) : X \in Names, N \in Names, V \in Names}
    \cup {TwoSections(A, B) : A \in Names, B \in Names}
    \cup {OpenSection(X) : X \in Names}
    \cup {SectionAssigned(X, V) : X \in Names, V \in Names}
    \cup {QuotedValueThenEquals(N, V) : N \in Names, V \in Names}

WithLineBreak(S) == S \cup {b \o <<LF>> : b \in S}

Inputs == SeqsUpTo(Alphabet, MaxLen) \cup WithLineBreak(AmbiguousCases \cup ShapedInputs)

\* the inputs of the termination check
LiveInputs == SeqsUpTo(Alphabet, MaxLiveLen) \cup WithLineBreak(AmbiguousCases)

\* bytes a read past the end of the caller's buffer can return
OutOfBoundsBytes == {0, 97}

VARIABLES
    fileContents,            \* the caller's buffer (a sequence of bytes)
    pc,                      \* where the parser is
    parsePosition, lineStart,
    nameStart, nameEnd, valueStart, valueEnd,
    sectionFound, equalsSignFound, lineIsMalformed,
    isInQuote, quoteEncountered, isInSection,   \* locals of parseName / parseValue
    remainingChunkByteCount,
    lines,                   \* every Line record allocated so far, in allocation order
    leakedLines,             \* number of 'new Line()' objects submitLine created
    loadedLinesMemory,       \* target: chunks, a sequence of block ids
    createdLinesMemory,      \* target: set of individually allocated block ids
    firstLine, lineNext, linePrevious,   \* target: the circular line list (Line::Next, Line::Previous)
    sections,                \* target: section name -> property map
    runs,                    \* number of ParseInto() calls made on the parser
    strayChunk,              \* what a read of loadedLinesMemory[chunkCount - 1] yields when the target has no chunk
    impl,                    \* Process: its PlatformDependentImplementationData
    kernel,                  \* the child processes the system has created, by handle
    outcome,                 \* Process: the last call and how it ended
    subscribers,             \* ConcurrentEvent: the broadcast queue
    editMutex,               \* ConcurrentEvent: the published SharedMutex (0: none)
    mutexes,                 \* the SharedMutex objects created so far, by number
    threads,                 \* the calls of Subscribe / Unsubscribe in progress, by thread
    eventOutcome             \* ConcurrentEvent: the last call made while no other was in progress, and how it ended

\* the parser and the document it fills
documentVars ==
        << fileContents, pc, parsePosition, lineStart, nameStart, nameEnd,
           valueStart, valueEnd, sectionFound, equalsSignFound, lineIsMalformed,
           isInQuote, quoteEncountered, isInSection, remainingChunkByteCount,
           lines, leakedLines, loadedLinesMemory, createdLinesMemory,
           firstLine, lineNext, linePrevious, sections, strayChunk, runs >>

\* a Process object and the system's child processes
processVars == << impl, kernel, outcome >>

\* a ConcurrentEvent and the threads that call it
eventVars == << subscribers, editMutex, mutexes, threads, eventOutcome >>

vars == << documentVars, processVars, eventVars >>

fileEnd == fileBegin + Len(fileContents)
byteCount == Len(fileContents)

\* ------------------------------------------------------------------------
\* The parser and the allocation state of its target as one record, so that
\* the methods can be written as functions from state to state
\* ------------------------------------------------------------------------
Self ==
    [ pc |-> pc, parsePosition |-> parsePosition, lineStart |-> lineStart,
      nameStart |-> nameStart, nameEnd |-> nameEnd,
      valueStart |-> valueStart, valueEnd |-> valueEnd,
      sectionFound |-> sectionFound, equalsSignFound |-> equalsSignFound,
      lineIsMalformed |-> lineIsMalformed,
      isInQuote |-> isInQuote, quoteEncountered |-> quoteEncountered,
      isInSection |-> isInSection,
      remainingChunkByteCount |-> remainingChunkByteCount,
      lines |-> lines, leakedLines |-> leakedLines,
      loadedLinesMemory |-> loadedLinesMemory,
      createdLinesMemory |-> createdLinesMemory,
      strayChunk |-> strayChunk, runs |-> runs ]

Becomes(s) ==
    /\ pc' = s.pc
    /\ parsePosition' = s.parsePosition
    /\ lineStart' = s.lineStart
    /\ nameStart' = s.nameStart
    /\ nameEnd' = s.nameEnd
    /\ valueStart' = s.valueStart
    /\ valueEnd' = s.valueEnd
    /\ sectionFound' = s.sectionFound
    /\ equalsSignFound' = s.equalsSignFound
    /\ lineIsMalformed' = s.lineIsMalformed
    /\ isInQuote' = s.isInQuote
    /\ quoteEncountered' = s.quoteEncountered
    /\ isInSection' = s.isInSection
    /\ remainingChunkByteCount' = s.remainingChunkByteCount
    /\ lines' = s.lines
    /\ leakedLines' = s.leakedLines
    /\ loadedLinesMemory' = s.loadedLinesMemory
    /\ createdLinesMemory' = s.createdLinesMemory
    /\ strayChunk' = s.strayChunk
    /\ runs' = s.runs

\* the byte at an address of the file buffer
ByteAt(p) == fileContents[p - fileBegin + 1]

\* the byte the parser is looking at
Current(s) == ByteAt(s.parsePosition)

\* what std::copy_n(contents, count, ...) reads: bytes of the buffer, and for
\* addresses at or past fileEnd whatever lies behind the buffer (junk, a
\* sequence the caller of this operator chooses from OutOfBoundsBytes)
ReadBytes(from, count, junk) ==
    [i \in 1..count |->
        IF from + i - 1 < fileEnd THEN ByteAt(from + i - 1)
                                  ELSE junk[from + i - fileEnd]]

\* number of bytes a copy of count bytes from an address reads past the buffer
Overrun(from, count) ==
    IF from + count > fileEnd THEN from + count - fileEnd ELSE 0

isWhitepace(c) == c \in {SPACE, TAB, CR, LF}

getSizePlusAlignmentPadding(size, alignment) ==
    IF (size % alignment) > 0 THEN size + (alignment - (size % alignment)) ELSE size

\* the next unused block id of the heap
NewBlock(s) == Len(s.loadedLinesMemory) + Cardinality(s.createdLinesMemory) + 1

\* allocateChunked<T>() that opens a chunk only when there is none yet
allocateChunkedWithoutRoomCheck(s, size, extraByteCount) ==
    LET totalByteCount == getSizePlusAlignmentPadding(size, AlignOfLine) + extraByteCount IN
    IF totalByteCount * 2 < AllocationChunkSize THEN
        IF Len(s.loadedLinesMemory) = 0 THEN
            [ state |-> [s EXCEPT !.loadedLinesMemory = Append(@, NewBlock(s)),
                                  !.remainingChunkByteCount = AllocationChunkSize - totalByteCount],
              returned |-> [block |-> NewBlock(s), offset |-> 0] ]
        ELSE
            [ state |-> [s EXCEPT !.remainingChunkByteCount = @ - totalByteCount],
              returned |-> [block |-> s.loadedLinesMemory[Len(s.loadedLinesMemory)],
                            offset |-> AllocationChunkSize - s.remainingChunkByteCount] ]
    ELSE
        [ state |-> [s EXCEPT !.createdLinesMemory = @ \cup {NewBlock(s)}],
          returned |-> [block |-> NewBlock(s), offset |-> 0] ]

\* allocateChunked<T>() that also serves a request of exactly half a chunk
\* from the chunks
allocateChunkedHalfIncluded(s, size, extraByteCount) ==
    LET totalByteCount == getSizePlusAlignmentPadding(size, AlignOfLine) + extraByteCount IN
    IF totalByteCount * 2 <= AllocationChunkSize THEN
        IF s.remainingChunkByteCount < totalByteCount THEN
            [ state |-> [s EXCEPT !.loadedLinesMemory = Append(@, NewBlock(s)),
                                  !.remainingChunkByteCount = AllocationChunkSize - totalByteCount],
              returned |-> [block |-> NewBlock(s), offset |-> 0] ]
        ELSE
            [ state |-> [s EXCEPT !.remainingChunkByteCount = @ - totalByteCount],
              returned |-> [block |-> s.loadedLinesMemory[Len(s.loadedLinesMemory)],
                            offset |-> AllocationChunkSize - s.remainingChunkByteCount] ]
    ELSE
        [ state |-> [s EXCEPT !.createdLinesMemory = @ \cup {NewBlock(s)}],
          returned |-> [block |-> NewBlock(s), offset |-> 0] ]

\* allocateChunked if carving did not use up the room it hands out
allocateChunkedNotCounting(s, size, extraByteCount) ==
    LET totalByteCount == getSizePlusAlignmentPadding(size, AlignOfLine) + extraByteCount IN
    IF totalByteCount * 2 < AllocationChunkSize THEN
        IF s.remainingChunkByteCount < totalByteCount THEN
            [ state |-> [s EXCEPT !.loadedLinesMemory = Append(@, NewBlock(s)),
                                  !.remainingChunkByteCount = AllocationChunkSize - totalByteCount],
              returned |-> [block |-> NewBlock(s), offset |-> 0] ]
        ELSE
            [ state |-> s,
              returned |-> [block |-> s.loadedLinesMemory[Len(s.loadedLinesMemory)],
                            offset |-> AllocationChunkSize - s.remainingChunkByteCount] ]
    ELSE
        [ state |-> [s EXCEPT !.createdLinesMemory = @ \cup {NewBlock(s)}],
          returned |-> [block |-> NewBlock(s), offset |-> 0] ]

\* allocateChunked<T>(extraByteCount): the state after the call, with the
\* returned address in field 'returned' as [block, offset]
allocateChunked(s, size, extraByteCount) ==
    LET totalByteCount == getSizePlusAlignmentPadding(size, AlignOfLine) + extraByteCount IN
    IF totalByteCount * 2 < AllocationChunkSize THEN
        IF s.remainingChunkByteCount < totalByteCount THEN
            [ state |-> [s EXCEPT !.loadedLinesMemory = Append(@, NewBlock(s)),
                                  !.remainingChunkByteCount = AllocationChunkSize - totalByteCount],
              returned |-> [block |-> NewBlock(s), offset |-> 0] ]
        ELSE
            [ state |-> [s EXCEPT !.remainingChunkByteCount = @ - totalByteCount],
              returned |-> [block |-> IF s.loadedLinesMemory = << >> THEN s.strayChunk
                                      ELSE s.loadedLinesMemory[Len(s.loadedLinesMemory)],
                            offset |-> AllocationChunkSize - s.remainingChunkByteCount] ]
    ELSE
        [ state |-> [s EXCEPT !.createdLinesMemory = @ \cup {NewBlock(s)}],
          returned |-> [block |-> NewBlock(s), offset |-> 0] ]

\* allocateLineChunked<TLine>(contents, byteCount): allocates the record and
\* copies the line's bytes behind it.  Previous and Next are not assigned.
\* The record is appended to 'lines' with the name and value fields zeroed;
\* generatePropertyLine / generateSectionLine fill them in.  'kind' records
\* which branch of submitLine asked for the record and 'start' the address
\* the bytes were copied from (neither is a field of the C++ struct).
allocateLineChunked(s, type, kind, contents, count, junk) ==
    LET size == CASE type = "Line" -> SizeOfLine
                  [] type = "SectionLine" -> SizeOfSectionLine
                  [] type = "PropertyLine" -> SizeOfPropertyLine
        a == allocateChunked(s, size, count)
        newLine == [ type |-> type, kind |-> kind, address |-> a.returned,
                     start |-> contents,
                     Contents |-> ReadBytes(contents, count, junk),
                     Length |-> count,
                     NameStartIndex |-> 0, NameLength |-> 0,
                     ValueStartIndex |-> 0, ValueLength |-> 0 ]
    IN [a.state EXCEPT !.lines = Append(@, newLine)]

\* generatePropertyLine(): s.parsePosition is already incremented
generatePropertyLine(s, junk) ==
    LET t == allocateLineChunked(s, "PropertyLine", "Property",
                                 s.lineStart, s.parsePosition - s.lineStart, junk)
        n == Len(t.lines)
        hasValue == (s.valueStart # nullptr) /\ (s.valueEnd # nullptr)
        hasName == (s.nameStart # nullptr) /\ (s.nameEnd # nullptr)
    IN [t EXCEPT
          !.lines[n].ValueStartIndex = IF hasValue THEN s.valueStart - s.lineStart ELSE 0,
          !.lines[n].ValueLength = IF hasValue THEN s.valueEnd - s.nameStart ELSE 0,
          !.lines[n].NameStartIndex = IF hasName THEN s.nameStart - s.lineStart ELSE 0,
          !.lines[n].NameLength = IF hasName THEN s.nameEnd - s.nameStart ELSE 0 ]

\* generateSectionLine(): the registration in the section index is commented out
generateSectionLine(s, junk) ==
    LET t == allocateLineChunked(s, "SectionLine", "Section",
                                 s.lineStart, s.parsePosition - s.lineStart, junk)
        n == Len(t.lines)
        hasName == (s.nameStart # nullptr) /\ (s.nameEnd # nullptr)
    IN [t EXCEPT
          !.lines[n].NameStartIndex = IF hasName THEN s.nameStart - s.lineStart ELSE 0,
          !.lines[n].NameLength = IF hasName THEN s.nameEnd - s.nameStart ELSE 0 ]

resetState(s) ==
    [s EXCEPT !.lineStart = s.parsePosition,
              !.nameStart = nullptr, !.nameEnd = nullptr,
              !.valueStart = nullptr, !.valueEnd = nullptr,
              !.sectionFound = FALSE, !.equalsSignFound = FALSE,
              !.lineIsMalformed = FALSE]

\* submitLine() that asks for a found section before it asks for an equals sign
submitLineSectionFirst(s, junk) ==
    LET p == [s EXCEPT !.parsePosition = @ + 1]
        count == p.parsePosition - p.lineStart
        t == IF p.lineIsMalformed THEN
                 [allocateLineChunked(p, "Line", "Malformed", p.lineStart, count, junk)
                     EXCEPT !.leakedLines = @ + 1]
             ELSE IF p.sectionFound THEN generateSectionLine(p, junk)
             ELSE IF p.equalsSignFound THEN generatePropertyLine(p, junk)
             ELSE allocateLineChunked(p, "Line", "Plain", p.lineStart, count, junk)
    IN resetState(t)

\* submitLine(): the new record is held in a local variable only and is not
\* linked into the target's line list or registered in its section index
submitLine(s, junk) ==
    LET p == [s EXCEPT !.parsePosition = @ + 1]
        count == p.parsePosition - p.lineStart
        t == IF p.lineIsMalformed THEN
                 [allocateLineChunked(p, "Line", "Malformed", p.lineStart, count, junk)
                     EXCEPT !.leakedLines = @ + 1]
             ELSE IF p.equalsSignFound THEN generatePropertyLine(p, junk)
             ELSE IF p.sectionFound THEN generateSectionLine(p, junk)
             ELSE allocateLineChunked(p, "Line", "Plain", p.lineStart, count, junk)
    IN resetState(t)

\* the junk sequences a submitLine() in state s can read behind the buffer
JunkFor(s) ==
    [1..Overrun(s.lineStart, s.parsePosition + 1 - s.lineStart) -> OutOfBoundsBytes]

\* parseMalformedLine() is entered: the flag is set, its loop follows
enterMalformedLine(s) ==
    [s EXCEPT !.lineIsMalformed = TRUE, !.pc = "parseMalformedLine"]

\* the end of the loop body of parseName() and parseValue(): a newline ends
\* the method (and the line is malformed if a quote is open), anything else
\* advances
endOfIteration(s, current) ==
    IF current = LF
    THEN [s EXCEPT !.lineIsMalformed = IF s.isInQuote THEN TRUE ELSE @, !.pc = "main"]
    ELSE [s EXCEPT !.parsePosition = @ + 1]

\* parseName() that accepts an opening bracket wherever it stands
parseNameBracketAnywhere(s) ==
    IF ~(s.parsePosition < fileEnd) THEN [s EXCEPT !.pc = "main"]
    ELSE LET current == Current(s) IN
    IF s.isInQuote THEN
        endOfIteration([s EXCEPT !.isInQuote = (current # QUOTE),
                                 !.nameEnd = s.parsePosition], current)
    ELSE CASE current \in {SEMICOLON, HASH} -> enterMalformedLine(s)
         [] current = LBRACKET ->
              IF FALSE THEN enterMalformedLine(s)
              ELSE LET u == IF s.sectionFound THEN submitLine(s, << >>) ELSE s IN
                   endOfIteration([u EXCEPT !.isInSection = TRUE,
                                            !.nameStart = u.parsePosition + 1], current)
         [] current = RBRACKET ->
              IF (s.nameStart = nullptr) \/ ~s.isInSection THEN enterMalformedLine(s)
              ELSE endOfIteration([s EXCEPT !.isInSection = FALSE,
                                            !.nameEnd = s.parsePosition,
                                            !.sectionFound = TRUE], current)
         [] current = QUOTE ->
              IF (s.nameStart # nullptr) \/ s.quoteEncountered THEN enterMalformedLine(s)
              ELSE endOfIteration([s EXCEPT !.quoteEncountered = TRUE,
                                            !.isInQuote = TRUE,
                                            !.nameStart = s.parsePosition + 1], current)
         [] current = EQUALS ->
              IF s.isInSection THEN enterMalformedLine(s) ELSE [s EXCEPT !.pc = "main"]
         [] OTHER ->
              IF ~isWhitepace(current) THEN
                  IF s.quoteEncountered THEN enterMalformedLine(s)
                  ELSE endOfIteration(
                         [s EXCEPT !.nameStart = IF @ = nullptr THEN s.parsePosition ELSE @,
                                   !.nameEnd = s.parsePosition + 1], current)
              ELSE endOfIteration(s, current)

\* parseName() that accepts a closing bracket without an open one
parseNameClosingBracketAnywhere(s) ==
    IF ~(s.parsePosition < fileEnd) THEN [s EXCEPT !.pc = "main"]
    ELSE LET current == Current(s) IN
    IF s.isInQuote THEN
        endOfIteration([s EXCEPT !.isInQuote = (current # QUOTE),
                                 !.nameEnd = s.parsePosition], current)
    ELSE CASE current \in {SEMICOLON, HASH} -> enterMalformedLine(s)
         [] current = LBRACKET ->
              IF (s.nameStart # nullptr) \/ s.isInSection THEN enterMalformedLine(s)
              ELSE LET u == IF s.sectionFound THEN submitLine(s, << >>) ELSE s IN
                   endOfIteration([u EXCEPT !.isInSection = TRUE,
                                            !.nameStart = u.parsePosition + 1], current)
         [] current = RBRACKET ->
              IF FALSE THEN enterMalformedLine(s)
              ELSE endOfIteration([s EXCEPT !.isInSection = FALSE,
                                            !.nameEnd = s.parsePosition,
                                            !.sectionFound = TRUE], current)
         [] current = QUOTE ->
              IF (s.nameStart # nullptr) \/ s.quoteEncountered THEN enterMalformedLine(s)
              ELSE endOfIteration([s EXCEPT !.quoteEncountered = TRUE,
                                            !.isInQuote = TRUE,
                                            !.nameStart = s.parsePosition + 1], current)
         [] current = EQUALS ->
              IF s.isInSection THEN enterMalformedLine(s) ELSE [s EXCEPT !.pc = "main"]
         [] OTHER ->
              IF ~isWhitepace(current) THEN
                  IF s.quoteEncountered THEN enterMalformedLine(s)
                  ELSE endOfIteration(
                         [s EXCEPT !.nameStart = IF @ = nullptr THEN s.parsePosition ELSE @,
                                   !.nameEnd = s.parsePosition + 1], current)
              ELSE endOfIteration(s, current)

\* parseName() that looks at '=', ';' and '#' before it looks at the quote
parseNameQuoteCheckedLate(s) ==
    IF ~(s.parsePosition < fileEnd) THEN [s EXCEPT !.pc = "main"]
    ELSE LET current == Current(s) IN
    IF s.isInQuote /\ (current \notin {EQUALS, SEMICOLON, HASH}) THEN
        endOfIteration([s EXCEPT !.isInQuote = (current # QUOTE),
                                 !.nameEnd = s.parsePosition], current)
    ELSE CASE current \in {SEMICOLON, HASH} -> enterMalformedLine(s)
         [] current = LBRACKET ->
              IF (s.nameStart # nullptr) \/ s.isInSection THEN enterMalformedLine(s)
              ELSE LET u == IF s.sectionFound THEN submitLine(s, << >>) ELSE s IN
                   endOfIteration([u EXCEPT !.isInSection = TRUE,
                                            !.nameStart = u.parsePosition + 1], current)
         [] current = RBRACKET ->
              IF (s.nameStart = nullptr) \/ ~s.isInSection THEN enterMalformedLine(s)
              ELSE endOfIteration([s EXCEPT !.isInSection = FALSE,
                                            !.nameEnd = s.parsePosition,
                                            !.sectionFound = TRUE], current)
         [] current = QUOTE ->
              IF (s.nameStart # nullptr) \/ s.quoteEncountered THEN enterMalformedLine(s)
              ELSE endOfIteration([s EXCEPT !.quoteEncountered = TRUE,
                                            !.isInQuote = TRUE,
                                            !.nameStart = s.parsePosition + 1], current)
         [] current = EQUALS ->
              IF s.isInSection THEN enterMalformedLine(s) ELSE [s EXCEPT !.pc = "main"]
         [] OTHER ->
              IF ~isWhitepace(current) THEN
                  IF s.quoteEncountered THEN enterMalformedLine(s)
                  ELSE endOfIteration(
                         [s EXCEPT !.nameStart = IF @ = nullptr THEN s.parsePosition ELSE @,
                                   !.nameEnd = s.parsePosition + 1], current)
              ELSE endOfIteration(s, current)

\* one iteration of the loop of parseName()
parseName(s) ==
    IF ~(s.parsePosition < fileEnd) THEN [s EXCEPT !.pc = "main"]
    ELSE LET current == Current(s) IN
    IF s.isInQuote THEN
        endOfIteration([s EXCEPT !.isInQuote = (current # QUOTE),
                                 !.nameEnd = s.parsePosition], current)
    ELSE CASE current \in {SEMICOLON, HASH} -> enterMalformedLine(s)
         [] current = LBRACKET ->
              IF (s.nameStart # nullptr) \/ s.isInSection THEN enterMalformedLine(s)
              ELSE LET u == IF s.sectionFound THEN submitLine(s, << >>) ELSE s IN
                   endOfIteration([u EXCEPT !.isInSection = TRUE,
                                            !.nameStart = u.parsePosition + 1], current)
         [] current = RBRACKET ->
              IF (s.nameStart = nullptr) \/ ~s.isInSection THEN enterMalformedLine(s)
              ELSE endOfIteration([s EXCEPT !.isInSection = FALSE,
                                            !.nameEnd = s.parsePosition,
                                            !.sectionFound = TRUE], current)
         [] current = QUOTE ->
              IF (s.nameStart # nullptr) \/ s.quoteEncountered THEN enterMalformedLine(s)
              ELSE endOfIteration([s EXCEPT !.quoteEncountered = TRUE,
                                            !.isInQuote = TRUE,
                                            !.nameStart = s.parsePosition + 1], current)
         [] current = EQUALS ->
              IF s.isInSection THEN enterMalformedLine(s) ELSE [s EXCEPT !.pc = "main"]
         [] OTHER ->
              IF ~isWhitepace(current) THEN
                  IF s.quoteEncountered THEN enterMalformedLine(s)
                  ELSE endOfIteration(
                         [s EXCEPT !.nameStart = IF @ = nullptr THEN s.parsePosition ELSE @,
                                   !.nameEnd = s.parsePosition + 1], current)
              ELSE endOfIteration(s, current)

\* parseValue() that lets characters follow a closed quote
parseValueLenientAfterQuote(s) ==
    IF ~(s.parsePosition < fileEnd) THEN [s EXCEPT !.pc = "main"]
    ELSE LET current == Current(s) IN
    IF s.isInQuote THEN
        endOfIteration([s EXCEPT !.isInQuote = (current # QUOTE),
                                 !.valueEnd = s.parsePosition], current)
    ELSE CASE current \in {SEMICOLON, HASH} -> [s EXCEPT !.pc = "parseComment"]
         [] current = QUOTE ->
              IF (s.valueStart # nullptr) \/ s.quoteEncountered THEN enterMalformedLine(s)
              ELSE endOfIteration([s EXCEPT !.quoteEncountered = TRUE,
                                            !.isInQuote = TRUE,
                                            !.valueStart = s.parsePosition + 1], current)
         [] current = EQUALS -> enterMalformedLine(s)
         [] OTHER ->
              IF ~isWhitepace(current) THEN
                  endOfIteration(
                         [s EXCEPT !.valueStart = IF @ = nullptr THEN s.parsePosition ELSE @,
                                   !.valueEnd = s.parsePosition + 1], current)
              ELSE endOfIteration(s, current)

\* parseValue() without the case for a further equals sign
parseValueWithoutEqualsCase(s) ==
    IF ~(s.parsePosition < fileEnd) THEN [s EXCEPT !.pc = "main"]
    ELSE LET current == Current(s) IN
    IF s.isInQuote THEN
        endOfIteration([s EXCEPT !.isInQuote = (current # QUOTE),
                                 !.valueEnd = s.parsePosition], current)
    ELSE CASE current \in {SEMICOLON, HASH} -> [s EXCEPT !.pc = "parseComment"]
         [] current = QUOTE ->
              IF (s.valueStart # nullptr) \/ s.quoteEncountered THEN enterMalformedLine(s)
              ELSE endOfIteration([s EXCEPT !.quoteEncountered = TRUE,
                                            !.isInQuote = TRUE,
                                            !.valueStart = s.parsePosition + 1], current)
         [] OTHER ->
              IF ~isWhitepace(current) THEN
                  IF s.quoteEncountered THEN enterMalformedLine(s)
                  ELSE endOfIteration(
                         [s EXCEPT !.valueStart = IF @ = nullptr THEN s.parsePosition ELSE @,
                                   !.valueEnd = s.parsePosition + 1], current)
              ELSE endOfIteration(s, current)

\* one iteration of the loop of parseValue()
parseValue(s) ==
    IF ~(s.parsePosition < fileEnd) THEN [s EXCEPT !.pc = "main"]
    ELSE LET current == Current(s) IN
    IF s.isInQuote THEN
        endOfIteration([s EXCEPT !.isInQuote = (current # QUOTE),
                                 !.valueEnd = s.parsePosition], current)
    ELSE CASE current \in {SEMICOLON, HASH} -> [s EXCEPT !.pc = "parseComment"]
         [] current = QUOTE ->
              IF (s.valueStart # nullptr) \/ s.quoteEncountered THEN enterMalformedLine(s)
              ELSE endOfIteration([s EXCEPT !.quoteEncountered = TRUE,
                                            !.isInQuote = TRUE,
                                            !.valueStart = s.parsePosition + 1], current)
         [] current = EQUALS -> enterMalformedLine(s)
         [] OTHER ->
              IF ~isWhitepace(current) THEN
                  IF s.quoteEncountered THEN enterMalformedLine(s)
                  ELSE endOfIteration(
                         [s EXCEPT !.valueStart = IF @ = nullptr THEN s.parsePosition ELSE @,
                                   !.valueEnd = s.parsePosition + 1], current)
              ELSE endOfIteration(s, current)

\* one iteration of the loop of parseComment()
parseComment(s) ==
    IF ~(s.parsePosition < fileEnd) THEN [s EXCEPT !.pc = "main"]
    ELSE IF Current(s) = LF THEN [s EXCEPT !.pc = "main"]
    ELSE [s EXCEPT !.parsePosition = @ + 1]

\* parseMalformedLine() with the increment of the parse position left out
parseMalformedLineWithoutIncrement(s) ==
    IF ~(s.parsePosition < fileEnd) THEN [s EXCEPT !.pc = "main"]
    ELSE IF Current(s) = LF THEN [s EXCEPT !.pc = "main"]
    ELSE s

\* one iteration of the loop of parseMalformedLine()
parseMalformedLine(s) ==
    IF ~(s.parsePosition < fileEnd) THEN [s EXCEPT !.pc = "main"]
    ELSE IF Current(s) = LF THEN [s EXCEPT !.pc = "main"]
    ELSE [s EXCEPT !.parsePosition = @ + 1]

\* parseName() or parseValue() is entered: their locals are initialised
enterNameOrValue(s, method) ==
    [s EXCEPT !.pc = method, !.isInQuote = FALSE,
              !.quoteEncountered = FALSE, !.isInSection = FALSE]

\* one iteration of the main loop of ParseInto()
mainLoop(s) ==
    LET current == Current(s) IN
    CASE current \in {HASH, SEMICOLON} -> [s EXCEPT !.pc = "parseComment"]
      [] current = EQUALS ->
           IF s.equalsSignFound THEN enterMalformedLine(s)
           ELSE [s EXCEPT !.equalsSignFound = TRUE, !.parsePosition = @ + 1]
      [] current = LF -> submitLine(s, << >>)
      [] OTHER ->
           IF isWhitepace(current) THEN [s EXCEPT !.parsePosition = @ + 1]
           ELSE IF s.equalsSignFound THEN enterNameOrValue(s, "parseValue")
           ELSE enterNameOrValue(s, "parseName")

\* the end of ParseInto(), after the main loop
afterMainLoop(s, junk) ==
    LET t == IF s.parsePosition > s.lineStart THEN submitLine(s, junk) ELSE s
    IN [t EXCEPT !.pc = "done"]

\* ------------------------------------------------------------------------
\* Initial state: a FileParser constructed on the caller's buffer and a
\* default-constructed IniDocumentModel as its target
\* ------------------------------------------------------------------------
\* the address of the line IniDocumentModel() allocates with allocateLine()
SyntheticLineAddress == [block |-> 1, offset |-> 0]

\* the line IniDocumentModel() creates (build without NUCLEX_SUPPORT_WIN32)
SyntheticLine ==
    [ type |-> "Line", kind |-> "Synthetic", address |-> SyntheticLineAddress,
      start |-> nullptr, Contents |-> <<LF>>, Length |-> 1,
      NameStartIndex |-> 0, NameLength |-> 0,
      ValueStartIndex |-> 0, ValueLength |-> 0 ]

\* ------------------------------------------------------------------------
\* Process (Process.Windows.cpp): handles are the positions of the child
\* processes in 'kernel'
\* ------------------------------------------------------------------------
INVALID_HANDLE_VALUE == -1
STILL_ACTIVE == 259

\* Process::Process(): PlatformDependentImplementationData() in the buffer
ProcessConstructed ==
    /\ impl = [ ChildProcessHandle |-> INVALID_HANDLE_VALUE,
                StdinHandle |-> INVALID_HANDLE_VALUE,
                StdoutHandle |-> INVALID_HANDLE_VALUE,
                StderrHandle |-> INVALID_HANDLE_VALUE ]
    /\ kernel = << >>
    /\ outcome = [ call |-> "Process", ended |-> "returned", value |-> 0 ]

\* ------------------------------------------------------------------------
\* ConcurrentEvent: a broadcast queue is a record; 'present' is false for the
\* empty std::shared_ptr.  SharedMutex objects are numbered from 1, and 0 is
\* the empty std::shared_ptr<SharedMutex>.
\* ------------------------------------------------------------------------
\* the threads that may call the event
MaxThreads == 2

Threads == 1..MaxThreads

NoQueue == [ present |-> FALSE, Subscribers |-> << >> ]

\* a thread that is in no call
Idle ==
    [ pc |-> "idle", op |-> "none", delegate |-> "none",
      currentEditMutex |-> 0, newEditMutex |-> 0, knownReferenceCount |-> 0,
      held |-> 0, read |-> NoQueue, calls |-> 0 ]

\* the implicit constructor: both shared pointers empty
EventConstructed ==
    /\ subscribers = NoQueue
    /\ editMutex = 0
    /\ mutexes = << >>
    /\ threads = [t \in Threads |-> Idle]
    /\ eventOutcome = [ call |-> "ConcurrentEvent", delegate |-> "none",
                        ended |-> "returned", value |-> FALSE ]

\* a default constructor whose allocateLine() does not record the block
InitOnUntrackedLine(buffers) ==
    /\ fileContents \in buffers
    /\ pc = "constructed"
    /\ parsePosition = nullptr /\ lineStart = nullptr
    /\ nameStart = nullptr /\ nameEnd = nullptr
    /\ valueStart = nullptr /\ valueEnd = nullptr
    /\ sectionFound = FALSE /\ equalsSignFound = FALSE /\ lineIsMalformed = FALSE
    /\ isInQuote = FALSE /\ quoteEncountered = FALSE /\ isInSection = FALSE
    /\ remainingChunkByteCount = 0
    /\ lines = << SyntheticLine >>
    /\ leakedLines = 0
    /\ loadedLinesMemory = << >>
    /\ createdLinesMemory = {}
    /\ firstLine = SyntheticLineAddress
    /\ lineNext = (SyntheticLineAddress :> SyntheticLineAddress)
    /\ linePrevious = (SyntheticLineAddress :> SyntheticLineAddress)
    /\ sections = << >>
    /\ strayChunk = nullptr
    /\ runs = 0
    /\ ProcessConstructed
    /\ EventConstructed

InitOn(buffers) ==
    /\ fileContents \in buffers
    /\ pc = "constructed"
    /\ parsePosition = nullptr /\ lineStart = nullptr
    /\ nameStart = nullptr /\ nameEnd = nullptr
    /\ valueStart = nullptr /\ valueEnd = nullptr
    /\ sectionFound = FALSE /\ equalsSignFound = FALSE /\ lineIsMalformed = FALSE
    /\ isInQuote = FALSE /\ quoteEncountered = FALSE /\ isInSection = FALSE
    /\ remainingChunkByteCount = 0
    /\ lines = << SyntheticLine >>
    /\ leakedLines = 0
    /\ loadedLinesMemory = << >>
    /\ createdLinesMemory = {SyntheticLineAddress.block}
    /\ firstLine = SyntheticLineAddress
    /\ lineNext = (SyntheticLineAddress :> SyntheticLineAddress)
    /\ linePrevious = (SyntheticLineAddress :> SyntheticLineAddress)
    /\ sections = << >>
    /\ strayChunk = nullptr
    /\ runs = 0
    /\ ProcessConstructed
    /\ EventConstructed

Init == InitOn(Inputs)

\* what no method of the parser assigns: the list and the index of the
\* target, and the objects that are no part of the document
TargetListAndIndex ==
    << fileContents, firstLine, lineNext, linePrevious, sections, processVars, eventVars >>

\* ParseInto() up to its main loop
ParseInto ==
    /\ pc = "constructed"
    /\ Becomes([resetState(Self) EXCEPT !.parsePosition = fileBegin,
                                        !.lineStart = fileBegin,
                                        !.pc = "main",
                                        !.runs = @ + 1])
    /\ UNCHANGED TargetListAndIndex

MainLoop ==
    /\ pc = "main"
    /\ parsePosition < fileEnd
    /\ Becomes(mainLoop(Self))
    /\ UNCHANGED TargetListAndIndex

AfterMainLoop ==
    /\ pc = "main"
    /\ ~(parsePosition < fileEnd)
    /\ \E junk \in JunkFor(Self) : Becomes(afterMainLoop(Self, junk))
    /\ UNCHANGED TargetListAndIndex

ParseName ==
    /\ pc = "parseName"
    /\ Becomes(parseName(Self))
    /\ UNCHANGED TargetListAndIndex

ParseValue ==
    /\ pc = "parseValue"
    /\ Becomes(parseValue(Self))
    /\ UNCHANGED TargetListAndIndex

ParseComment ==
    /\ pc = "parseComment"
    /\ Becomes(parseComment(Self))
    /\ UNCHANGED TargetListAndIndex

ParseMalformedLine ==
    /\ pc = "parseMalformedLine"
    /\ Becomes(parseMalformedLine(Self))
    /\ UNCHANGED TargetListAndIndex

Next ==
    \/ ParseInto
    \/ MainLoop
    \/ AfterMainLoop
    \/ ParseName
    \/ ParseValue
    \/ ParseComment
    \/ ParseMalformedLine

Spec == Init /\ [][Next]_vars

\* the parser is a sequential program: it takes its next step whenever it has one
FairSpec == InitOn(LiveInputs) /\ [][Next]_vars /\ WF_vars(Next)

\* ------------------------------------------------------------------------
\* Buffers in which one line stands twice: at the start of the buffer and
\* again behind another complete line
\* ------------------------------------------------------------------------
\* the longest line (without its line break) that is repeated
MaxRepeatLen == 2

\* the longest line (without its line break) that is put in between
MaxBetweenLen == 1

LineBodies(n) == SeqsUpTo(Alphabet \ {LF}, n)

RepeatedLineInputs ==
    { l \o <<LF>> \o b \o <<LF>> \o l \o <<LF>> :
        l \in LineBodies(MaxRepeatLen), b \in LineBodies(MaxBetweenLen) }

RepeatSpec == InitOn(RepeatedLineInputs) /\ [][Next]_vars

\* ------------------------------------------------------------------------
\* A FileParser whose ParseInto() is called again when it has returned.  The
\* model follows the target of the running call: ParseIntoAgain passes the
\* same document once more, ParseIntoAnother a default-constructed one.
\* ------------------------------------------------------------------------
\* the longest buffer of a parser that is used again
MaxReuseLen == 2

\* the most calls of ParseInto() on one parser
MaxRuns == 3

ReuseInputs == SeqsUpTo(Alphabet, MaxReuseLen)

\* what may lie in the memory in front of the storage of an empty chunk
\* list: nothing that is mapped (the access faults), or the address of a
\* block that is in use
StrayChunks == {nullptr, SyntheticLineAddress.block}

ParseIntoAgain ==
    /\ pc = "done"
    /\ runs < MaxRuns
    /\ Becomes([resetState(Self) EXCEPT !.parsePosition = fileBegin,
                                        !.lineStart = fileBegin,
                                        !.pc = "main",
                                        !.runs = @ + 1])
    /\ UNCHANGED TargetListAndIndex

ParseIntoAnother ==
    /\ pc = "done"
    /\ runs < MaxRuns
    /\ \E stray \in StrayChunks :
          Becomes([resetState(Self) EXCEPT !.parsePosition = fileBegin,
                                           !.lineStart = fileBegin,
                                           !.pc = "main",
                                           !.runs = @ + 1,
                                           !.lines = << SyntheticLine >>,
                                           !.leakedLines = 0,
                                           !.loadedLinesMemory = << >>,
                                           !.createdLinesMemory = {SyntheticLineAddress.block},
                                           !.strayChunk = stray])
    /\ UNCHANGED TargetListAndIndex

ReuseNext ==
    \/ Next
    \/ ParseIntoAgain
    \/ ParseIntoAnother

ReuseSpec == InitOn(ReuseInputs) /\ [][ReuseNext]_vars

\* ------------------------------------------------------------------------
\* MemoryEstimator and estimateRequiredMemory(): a function of the buffer.
\* Positions are addresses (fileBegin + offset).  Field 'ended' is not in the
\* C++ class: it keeps, for each call of EndLine, the record type chosen and
\* the line's first and one-past-last address.
\* ------------------------------------------------------------------------
growUntilAligned(counter, alignment) ==
    IF (counter % alignment) > 0
    THEN counter + (alignment - (counter % alignment))
    ELSE counter

\* MemoryEstimator()
NewMemoryEstimator ==
    [ ByteCount |-> 0, lineStartPosition |-> nullptr,
      sectionStarted |-> FALSE, sectionEnded |-> FALSE,
      foundAssignment |-> FALSE, lineIsMalformed |-> FALSE,
      ended |-> << >> ]

EndLine(e, filePosition) ==
    LET type == IF e.lineIsMalformed THEN "Line"
                ELSE IF e.foundAssignment THEN "PropertyLine"
                ELSE IF e.sectionStarted /\ e.sectionEnded THEN "SectionLine"
                ELSE "Line"
        size == CASE type = "Line" -> SizeOfLine
                  [] type = "SectionLine" -> SizeOfSectionLine
                  [] type = "PropertyLine" -> SizeOfPropertyLine
    IN [ ByteCount |-> growUntilAligned(e.ByteCount, AlignOfLine) + size
                          + (filePosition - e.lineStartPosition),
         lineStartPosition |-> filePosition,
         sectionStarted |-> FALSE, sectionEnded |-> FALSE,
         foundAssignment |-> FALSE, lineIsMalformed |-> FALSE,
         ended |-> Append(e.ended, [ type |-> type, start |-> e.lineStartPosition,
                                     end |-> filePosition ]) ]

BeginLine(e, filePosition) ==
    LET f == IF e.lineStartPosition # nullptr THEN EndLine(e, filePosition) ELSE e
    IN [f EXCEPT !.lineStartPosition = filePosition]

BeginSection(e, filePosition) ==
    LET f == IF e.sectionEnded THEN EndLine(e, filePosition) ELSE e
    IN [f EXCEPT !.sectionStarted = TRUE]

EndSection(e) ==
    IF e.sectionStarted THEN [e EXCEPT !.sectionEnded = TRUE] ELSE e

AddAssignment(e) ==
    IF e.foundAssignment THEN [e EXCEPT !.lineIsMalformed = TRUE]
    ELSE [e EXCEPT !.foundAssignment = TRUE]

\* the scan loop of estimateRequiredMemory() after n bytes of the buffer
RECURSIVE estimateScan(_)
estimateScan(n) ==
    IF n = 0
    THEN [ memoryEstimate |-> BeginLine(NewMemoryEstimator, fileBegin),
           previousWasNewLine |-> FALSE, isInsideQuote |-> FALSE,
           encounteredComment |-> FALSE ]
    ELSE LET before == estimateScan(n - 1)
             position == fileBegin + n - 1
             current == ByteAt(position)
             m == before.memoryEstimate
         IN IF current = LF
            THEN [ memoryEstimate |-> EndLine(m, position + 1),
                   previousWasNewLine |-> TRUE, isInsideQuote |-> FALSE,
                   encounteredComment |-> FALSE ]
            ELSE IF before.isInsideQuote
            THEN [before EXCEPT !.previousWasNewLine = FALSE,
                                !.isInsideQuote = (current # QUOTE)]
            ELSE IF ~before.encounteredComment
            THEN CASE current \in {SEMICOLON, HASH} ->
                        [before EXCEPT !.previousWasNewLine = FALSE,
                                       !.encounteredComment = TRUE]
                   [] current = LBRACKET ->
                        [before EXCEPT !.previousWasNewLine = FALSE,
                                       !.memoryEstimate = BeginSection(m, position)]
                   [] current = RBRACKET ->
                        [before EXCEPT !.previousWasNewLine = FALSE,
                                       !.memoryEstimate = EndSection(m)]
                   [] current = EQUALS ->
                        [before EXCEPT !.previousWasNewLine = FALSE,
                                       !.memoryEstimate = AddAssignment(m)]
                   [] current = QUOTE ->
                        [before EXCEPT !.previousWasNewLine = FALSE,
                                       !.isInsideQuote = TRUE]
                   [] OTHER -> [before EXCEPT !.previousWasNewLine = FALSE]
            ELSE [before EXCEPT !.previousWasNewLine = FALSE]

\* estimateRequiredMemory(fileContents, byteCount): the estimator at return
estimateRequiredMemory ==
    LET scanned == estimateScan(byteCount)
    IN IF ~scanned.previousWasNewLine
       THEN EndLine(scanned.memoryEstimate, fileEnd)
       ELSE scanned.memoryEstimate

\* ------------------------------------------------------------------------
\* The allocator on its own: allocateChunked<T>(extraByteCount) called on a
\* constructed parser with any record type and payloads around the limits
\* ------------------------------------------------------------------------
\* the longest sequence of requests
MaxRequests == 3

\* payloads: none, one byte, a record's alignment, and for each record type
\* the largest payload served from a chunk and the smallest served alone
PayloadSizes ==
    {0, 1, AlignOfLine}
    \cup {(AllocationChunkSize \div 2) - sz - 1 : sz \in {SizeOfLine, SizeOfSectionLine, SizeOfPropertyLine}}
    \cup {(AllocationChunkSize \div 2) - sz : sz \in {SizeOfLine, SizeOfSectionLine, SizeOfPropertyLine}}

\* sizeof(T) for the record types
SizeOfRecord(type) ==
    CASE type = "Line" -> SizeOfLine
      [] type = "SectionLine" -> SizeOfSectionLine
      [] type = "PropertyLine" -> SizeOfPropertyLine

\* a call of allocateChunked<T>(extraByteCount); the returned pointer is kept
\* in 'lines' as a record whose storage is still raw (kind "Raw", Length is
\* the payload asked for, no bytes copied)
AllocateChunked(type, extraByteCount) ==
    /\ pc = "constructed"
    /\ Len(lines) <= MaxRequests
    /\ LET a == allocateChunked(Self, SizeOfRecord(type), extraByteCount)
           raw == [ type |-> type, kind |-> "Raw", address |-> a.returned,
                    start |-> nullptr, Contents |-> << >>, Length |-> extraByteCount,
                    NameStartIndex |-> 0, NameLength |-> 0,
                    ValueStartIndex |-> 0, ValueLength |-> 0 ]
       IN Becomes([a.state EXCEPT !.lines = Append(@, raw)])
    /\ UNCHANGED TargetListAndIndex

AllocNext ==
    \E type \in {"Line", "SectionLine", "PropertyLine"}, extraByteCount \in PayloadSizes :
        AllocateChunked(type, extraByteCount)

AllocSpec == InitOn({<< >>}) /\ [][AllocNext]_vars

\* ------------------------------------------------------------------------
\* Process: Start, IsRunning, Wait and Join, each call one step.  What the
\* system does during a call is an input of the step: 'trouble' names the
\* system call that fails (if any), 'exits' whether the child exits while the
\* call waits for it (otherwise it runs until the patience is used up) and
\* 'during' the exit code it then exits with.
\* ------------------------------------------------------------------------
\* the most child processes the system creates
MaxStarts == 2

\* exit codes of the children: success, failure and the code that equals STILL_ACTIVE
ExitCodes == {0, 1, STILL_ACTIVE}

Returned(call, value) == [ call |-> call, ended |-> "returned", value |-> value ]
Thrown(call, exception) == [ call |-> call, ended |-> exception, value |-> 0 ]

\* WindowsProcessApi::GetProcessExitCode(): STILL_ACTIVE for a running child
GetProcessExitCode(handle) ==
    IF kernel[handle].state = "exited" THEN kernel[handle].exitCode ELSE STILL_ACTIVE

\* WaitForSingleObject() finds the process object signaled
Signaled(handle) == kernel[handle].state = "exited"

\* the child behind 'handle' exits with 'code'
Exited(handle, code) == [kernel EXCEPT ![handle].state = "exited", ![handle].exitCode = code]

\* Process::Start() if it stored the handles before closing the thread handle
StartStoringHandlesEarly(trouble) ==
    /\ IF impl.ChildProcessHandle # INVALID_HANDLE_VALUE
       THEN /\ outcome' = Thrown("Start", "logic_error")
            /\ UNCHANGED << impl, kernel >>
       ELSE IF trouble \in {"CreatePipe", "GetAbsoluteExecutablePath", "CreateProcessW"}
       THEN /\ outcome' = Thrown("Start", "system_error")
            /\ UNCHANGED << impl, kernel >>
       ELSE /\ Len(kernel) < MaxStarts
            /\ IF trouble = "CloseHandle"
               THEN /\ kernel' = Append(kernel, [ state |-> "running", exitCode |-> 0,
                                                  open |-> FALSE ])
                    /\ outcome' = Thrown("Start", "system_error")
                    /\ impl' = [ ChildProcessHandle |-> Len(kernel) + 1,
                                 StdinHandle |-> Len(kernel) + 1,
                                 StdoutHandle |-> Len(kernel) + 1,
                                 StderrHandle |-> Len(kernel) + 1 ]
               ELSE /\ kernel' = Append(kernel, [ state |-> "running", exitCode |-> 0,
                                                  open |-> TRUE ])
                    /\ impl' = [ ChildProcessHandle |-> Len(kernel) + 1,
                                 StdinHandle |-> Len(kernel) + 1,
                                 StdoutHandle |-> Len(kernel) + 1,
                                 StderrHandle |-> Len(kernel) + 1 ]
                    /\ outcome' = Returned("Start", 0)
    /\ UNCHANGED << documentVars, eventVars >>

\* Process::Start()
Start(trouble) ==
    /\ IF impl.ChildProcessHandle # INVALID_HANDLE_VALUE
       THEN /\ outcome' = Thrown("Start", "logic_error")
            /\ UNCHANGED << impl, kernel >>
       ELSE IF trouble \in {"CreatePipe", "GetAbsoluteExecutablePath", "CreateProcessW"}
       THEN /\ outcome' = Thrown("Start", "system_error")
            /\ UNCHANGED << impl, kernel >>
       ELSE /\ Len(kernel) < MaxStarts
            /\ IF trouble = "CloseHandle"
               THEN /\ kernel' = Append(kernel, [ state |-> "running", exitCode |-> 0,
                                                  open |-> FALSE ])
                    /\ outcome' = Thrown("Start", "system_error")
                    /\ UNCHANGED impl
               ELSE /\ kernel' = Append(kernel, [ state |-> "running", exitCode |-> 0,
                                                  open |-> TRUE ])
                    /\ impl' = [ ChildProcessHandle |-> Len(kernel) + 1,
                                 StdinHandle |-> Len(kernel) + 1,
                                 StdoutHandle |-> Len(kernel) + 1,
                                 StderrHandle |-> Len(kernel) + 1 ]
                    /\ outcome' = Returned("Start", 0)
    /\ UNCHANGED << documentVars, eventVars >>

\* Process::IsRunning() if it took the exit code STILL_ACTIVE at its word
IsRunningTrustingExitCode(trouble) ==
    /\ IF impl.ChildProcessHandle = INVALID_HANDLE_VALUE
       THEN outcome' = Returned("IsRunning", FALSE)
       ELSE IF trouble = "GetExitCodeProcess"
       THEN outcome' = Thrown("IsRunning", "system_error")
       ELSE IF GetProcessExitCode(impl.ChildProcessHandle) = STILL_ACTIVE
       THEN IF trouble = "WaitForSingleObject"
            THEN outcome' = Thrown("IsRunning", "system_error")
            ELSE outcome' = Returned("IsRunning", TRUE)
       ELSE outcome' = Returned("IsRunning", FALSE)
    /\ UNCHANGED << impl, kernel, documentVars, eventVars >>

\* Process::IsRunning()
IsRunning(trouble) ==
    /\ IF impl.ChildProcessHandle = INVALID_HANDLE_VALUE
       THEN outcome' = Returned("IsRunning", FALSE)
       ELSE IF trouble = "GetExitCodeProcess"
       THEN outcome' = Thrown("IsRunning", "system_error")
       ELSE IF GetProcessExitCode(impl.ChildProcessHandle) = STILL_ACTIVE
       THEN IF trouble = "WaitForSingleObject"
            THEN outcome' = Thrown("IsRunning", "system_error")
            ELSE outcome' = Returned("IsRunning", ~Signaled(impl.ChildProcessHandle))
       ELSE outcome' = Returned("IsRunning", FALSE)
    /\ UNCHANGED << impl, kernel, documentVars, eventVars >>

\* Process::Wait()
Wait(trouble, exits, during) ==
    /\ IF impl.ChildProcessHandle = INVALID_HANDLE_VALUE
       THEN outcome' = Thrown("Wait", "logic_error") /\ UNCHANGED kernel
       ELSE IF trouble \in {"PumpOutputStreams", "WaitForSingleObject"}
       THEN outcome' = Thrown("Wait", "system_error") /\ UNCHANGED kernel
       ELSE IF Signaled(impl.ChildProcessHandle)
       THEN outcome' = Returned("Wait", TRUE) /\ UNCHANGED kernel
       ELSE IF exits
       THEN /\ kernel' = Exited(impl.ChildProcessHandle, during)
            /\ outcome' = Returned("Wait", TRUE)
       ELSE outcome' = Returned("Wait", FALSE) /\ UNCHANGED kernel
    /\ UNCHANGED << impl, documentVars, eventVars >>

\* Process::Join() if it did not clear the handle it has closed
JoinKeepingHandle(trouble, exits, during) ==
    /\ IF impl.ChildProcessHandle = INVALID_HANDLE_VALUE
       THEN outcome' = Thrown("Join", "logic_error") /\ UNCHANGED << impl, kernel >>
       ELSE IF trouble = "GetExitCodeProcess"
       THEN outcome' = Thrown("Join", "system_error") /\ UNCHANGED << impl, kernel >>
       ELSE
         LET handle == impl.ChildProcessHandle
             mustWait == GetProcessExitCode(handle) = STILL_ACTIVE
         IN IF mustWait /\ trouble = "WaitForSingleObject"
            THEN outcome' = Thrown("Join", "system_error") /\ UNCHANGED << impl, kernel >>
            ELSE IF mustWait /\ ~Signaled(handle) /\ ~exits
            THEN outcome' = Thrown("Join", "TimeoutError") /\ UNCHANGED << impl, kernel >>
            ELSE
              LET exited == IF Signaled(handle) THEN kernel ELSE Exited(handle, during)
                  exitCode == exited[handle].exitCode
              IN IF trouble \in {"PumpOutputStreams", "CloseHandle"}
                 THEN /\ kernel' = exited
                      /\ outcome' = Thrown("Join", "system_error")
                      /\ UNCHANGED impl
                 ELSE /\ kernel' = [exited EXCEPT ![handle].open = FALSE]
                      /\ UNCHANGED impl
                      /\ outcome' = Returned("Join", exitCode)
    /\ UNCHANGED << documentVars, eventVars >>

\* Process::Join()
Join(trouble, exits, during) ==
    /\ IF impl.ChildProcessHandle = INVALID_HANDLE_VALUE
       THEN outcome' = Thrown("Join", "logic_error") /\ UNCHANGED << impl, kernel >>
       ELSE IF trouble = "GetExitCodeProcess"
       THEN outcome' = Thrown("Join", "system_error") /\ UNCHANGED << impl, kernel >>
       ELSE
         LET handle == impl.ChildProcessHandle
             mustWait == GetProcessExitCode(handle) = STILL_ACTIVE
         IN IF mustWait /\ trouble = "WaitForSingleObject"
            THEN outcome' = Thrown("Join", "system_error") /\ UNCHANGED << impl, kernel >>
            ELSE IF mustWait /\ ~Signaled(handle) /\ ~exits
            THEN outcome' = Thrown("Join", "TimeoutError") /\ UNCHANGED << impl, kernel >>
            ELSE
              LET exited == IF Signaled(handle) THEN kernel ELSE Exited(handle, during)
                  exitCode == exited[handle].exitCode
              IN IF trouble \in {"PumpOutputStreams", "CloseHandle"}
                 THEN /\ kernel' = exited
                      /\ outcome' = Thrown("Join", "system_error")
                      /\ UNCHANGED impl
                 ELSE /\ kernel' = [exited EXCEPT ![handle].open = FALSE]
                      /\ impl' = [impl EXCEPT !.ChildProcessHandle = INVALID_HANDLE_VALUE]
                      /\ outcome' = Returned("Join", exitCode)
    /\ UNCHANGED << documentVars, eventVars >>

\* a running child exits on its own
ChildExits(handle, code) ==
    /\ handle \in 1..Len(kernel)
    /\ kernel[handle].state = "running"
    /\ kernel' = Exited(handle, code)
    /\ UNCHANGED << impl, outcome, documentVars, eventVars >>

\* the system calls that can fail
Troubles ==
    {"none", "CreatePipe", "GetAbsoluteExecutablePath", "CreateProcessW", "CloseHandle",
     "GetExitCodeProcess", "WaitForSingleObject", "PumpOutputStreams"}

ProcessNext ==
    \/ \E trouble \in Troubles : Start(trouble)
    \/ \E trouble \in Troubles : IsRunning(trouble)
    \/ \E trouble \in Troubles, exits \in BOOLEAN, during \in ExitCodes :
          Wait(trouble, exits, during)
    \/ \E trouble \in Troubles, exits \in BOOLEAN, during \in ExitCodes :
          Join(trouble, exits, during)
    \/ \E handle \in 1..MaxStarts, code \in ExitCodes : ChildExits(handle, code)

ProcessSpec == InitOn({<< >>}) /\ [][ProcessNext]_vars

\* ------------------------------------------------------------------------
\* ConcurrentEvent: the subscriber list.  std::size_t is modelled SizeBits
\* wide (the arithmetic is the same for every width from 16 bits up).
\* ------------------------------------------------------------------------
SizeBits == 16
SizeModulus == 2 ^ SizeBits

\* sizeof(DelegateType) and sizeof(std::uint8_t *) in bytes
SizeOfDelegate == 16
SizeOfPointer == 8

\* the delegates that are subscribed and unsubscribed
Delegates == {"f", "g", "h"}

\* the longest subscriber list that is grown further
MaxSubscribers == 3

\* BroadcastQueue::allocateUninitializedDelegates(count): an array of
\* sizeof(DelegateType[2]) * count / 2 pointers; new[] throws when the array
\* is larger than any object can be.  'capacity' is the number of delegates
\* that fit into the array.
allocateUninitializedDelegates(count) ==
    LET elements == ((2 * SizeOfDelegate * count) % SizeModulus) \div 2
        bytes == elements * SizeOfPointer
    IN IF bytes >= SizeModulus
       THEN [ ended |-> "bad_array_new_length", capacity |-> 0 ]
       ELSE [ ended |-> "returned", capacity |-> bytes \div SizeOfDelegate ]

\* the loop of Unsubscribe() over the old subscribers from position 'index':
\* what it has written to the new array, and whether it has found the delegate
RECURSIVE scanSubscribers(_, _, _, _)
scanSubscribers(oldSubscribers, index, newSubscribers, delegate) ==
    IF index > Len(oldSubscribers)
    THEN [ found |-> FALSE, written |-> newSubscribers ]
    ELSE IF oldSubscribers[index] = delegate
    THEN [ found |-> TRUE,
           written |-> newSubscribers
                          \o SubSeq(oldSubscribers, index + 1, Len(oldSubscribers)) ]
    ELSE scanSubscribers(oldSubscribers, index + 1,
                         Append(newSubscribers, oldSubscribers[index]), delegate)

\* the edit of Subscribe() on the queue it finds
subscribe(queue, delegate) ==
    IF ~queue.present
    THEN [ present |-> TRUE, Subscribers |-> << delegate >> ]
    ELSE [ present |-> TRUE, Subscribers |-> Append(queue.Subscribers, delegate) ]

\* the edit of Unsubscribe() on the queue it finds: the queue to store, how
\* the call ends and what it returns.  'overflow' says what a write behind
\* the end of the new array does: it goes "unnoticed" or it "corrupts" the
\* heap.
unsubscribe(queue, delegate, overflow) ==
    IF ~queue.present
    THEN [ subscribers |-> queue, ended |-> "returned", value |-> FALSE ]
    ELSE
      LET oldSubscriberCount == Len(queue.Subscribers)
          newArray == allocateUninitializedDelegates((oldSubscriberCount - 1) % SizeModulus)
          scan == scanSubscribers(queue.Subscribers, 1, << >>, delegate)
      IN IF newArray.ended # "returned"
         THEN [ subscribers |-> queue, ended |-> newArray.ended, value |-> FALSE ]
         ELSE IF Len(scan.written) > newArray.capacity /\ overflow = "corrupts"
         THEN [ subscribers |-> queue, ended |-> "heap_corruption", value |-> FALSE ]
         ELSE IF scan.found
         THEN [ subscribers |-> [ present |-> TRUE, Subscribers |-> scan.written ],
                ended |-> "returned", value |-> TRUE ]
         ELSE [ subscribers |-> queue, ended |-> "returned", value |-> FALSE ]

\* Subscribe(delegate) called while no other call is in progress: the edit
\* mutex is created, locked, unlocked and dropped again within the call
Subscribe(delegate) ==
    /\ editMutex = 0
    /\ \A t \in Threads : threads[t].pc = "idle"
    /\ Len(subscribers.Subscribers) <= MaxSubscribers
    /\ subscribers' = subscribe(subscribers, delegate)
    /\ eventOutcome' = [ call |-> "Subscribe", delegate |-> delegate,
                         ended |-> "returned", value |-> FALSE ]
    /\ UNCHANGED << editMutex, mutexes, threads, documentVars, processVars >>

\* Unsubscribe(delegate) called while no other call is in progress
Unsubscribe(delegate, overflow) ==
    /\ editMutex = 0
    /\ \A t \in Threads : threads[t].pc = "idle"
    /\ LET edit == unsubscribe(subscribers, delegate, overflow)
       IN /\ subscribers' = edit.subscribers
          /\ eventOutcome' = [ call |-> "Unsubscribe", delegate |-> delegate,
                               ended |-> edit.ended, value |-> edit.value ]
    /\ UNCHANGED << editMutex, mutexes, threads, documentVars, processVars >>

CallNext ==
    \/ \E delegate \in Delegates : Subscribe(delegate)
    \/ \E delegate \in Delegates, overflow \in {"unnoticed", "corrupts"} :
          Unsubscribe(delegate, overflow)

CallSpec == InitOn({<< >>}) /\ [][CallNext]_vars

\* ------------------------------------------------------------------------
\* ConcurrentEvent called from several threads: every access to editMutex,
\* to a ReferenceCount, to a Mutex and to subscribers is a step of its own.
\* ------------------------------------------------------------------------
\* the most calls the threads make together
MaxCalls == 2

\* the calls the threads make: of a delegate that gets subscribed, and of
\* one that never is
ConcurrentCalls ==
    { << "Subscribe", "f" >>, << "Unsubscribe", "f" >>, << "Unsubscribe", "g" >> }

RECURSIVE CallsUpTo(_)
CallsUpTo(t) == IF t = 0 THEN 0 ELSE threads[t].calls + CallsUpTo(t - 1)

\* the thread's call has returned
Returns(t) == [threads EXCEPT ![t] = [Idle EXCEPT !.calls = threads[t].calls]]

\* the call begins; acquireMutex(): the atomic load of editMutex
Begin(t, op, delegate) ==
    /\ threads[t].pc = "idle"
    /\ CallsUpTo(MaxThreads) < MaxCalls
    /\ threads' = [threads EXCEPT ![t].op = op, ![t].delegate = delegate,
                                  ![t].calls = @ + 1,
                                  ![t].currentEditMutex = editMutex,
                                  ![t].pc = IF editMutex # 0 THEN "loadCount" ELSE "insert"]
    /\ UNCHANGED << subscribers, editMutex, mutexes, eventOutcome, documentVars, processVars >>

\* acquireMutex(): the load of ReferenceCount; a count of 0 resets currentEditMutex
LoadCount(t) ==
    /\ threads[t].pc = "loadCount"
    /\ LET known == mutexes[threads[t].currentEditMutex].ReferenceCount
       IN threads' = IF known >= 1
                     THEN [threads EXCEPT ![t].knownReferenceCount = known,
                                          ![t].pc = "uptick"]
                     ELSE [threads EXCEPT ![t].knownReferenceCount = known,
                                          ![t].currentEditMutex = 0,
                                          ![t].pc = "insert"]
    /\ UNCHANGED << subscribers, editMutex, mutexes, eventOutcome, documentVars, processVars >>

\* acquireMutex(): compare_exchange_weak on ReferenceCount (a spurious
\* failure changes nothing and is a stuttering step)
Uptick(t) ==
    /\ threads[t].pc = "uptick"
    /\ LET current == threads[t].currentEditMutex
           count == mutexes[current].ReferenceCount
       IN IF count = threads[t].knownReferenceCount
          THEN /\ mutexes' = [mutexes EXCEPT ![current].ReferenceCount = count + 1]
               /\ threads' = [threads EXCEPT ![t].held = current, ![t].pc = "lock"]
          ELSE /\ threads' = IF count >= 1
                             THEN [threads EXCEPT ![t].knownReferenceCount = count]
                             ELSE [threads EXCEPT ![t].knownReferenceCount = count,
                                                  ![t].currentEditMutex = 0,
                                                  ![t].pc = "insert"]
               /\ UNCHANGED mutexes
    /\ UNCHANGED << subscribers, editMutex, eventOutcome, documentVars, processVars >>

\* acquireMutex() if it stored its new mutex without comparing editMutex first
InsertWithoutCompare(t) ==
    /\ threads[t].pc = "insert"
    /\ LET fresh == threads[t].newEditMutex = 0
           new == IF fresh THEN Len(mutexes) + 1 ELSE threads[t].newEditMutex
       IN /\ mutexes' = IF fresh
                        THEN Append(mutexes, [ ReferenceCount |-> 1, lockedBy |-> 0 ])
                        ELSE mutexes
          /\ IF TRUE
             THEN /\ editMutex' = new
                  /\ threads' = [threads EXCEPT ![t].newEditMutex = new,
                                                ![t].held = new, ![t].pc = "lock"]
             ELSE /\ threads' = [threads EXCEPT
                                    ![t].newEditMutex = new,
                                    ![t].currentEditMutex = editMutex,
                                    ![t].pc = IF editMutex # 0 THEN "loadCount" ELSE "insert"]
                  /\ UNCHANGED editMutex
    /\ UNCHANGED << subscribers, eventOutcome, documentVars, processVars >>

\* acquireMutex(): make_shared<SharedMutex>() if there is none yet, and
\* atomic_compare_exchange_strong on editMutex
Insert(t) ==
    /\ threads[t].pc = "insert"
    /\ LET fresh == threads[t].newEditMutex = 0
           new == IF fresh THEN Len(mutexes) + 1 ELSE threads[t].newEditMutex
       IN /\ mutexes' = IF fresh
                        THEN Append(mutexes, [ ReferenceCount |-> 1, lockedBy |-> 0 ])
                        ELSE mutexes
          /\ IF editMutex = threads[t].currentEditMutex
             THEN /\ editMutex' = new
                  /\ threads' = [threads EXCEPT ![t].newEditMutex = new,
                                                ![t].held = new, ![t].pc = "lock"]
             ELSE /\ threads' = [threads EXCEPT
                                    ![t].newEditMutex = new,
                                    ![t].currentEditMutex = editMutex,
                                    ![t].pc = IF editMutex # 0 THEN "loadCount" ELSE "insert"]
                  /\ UNCHANGED editMutex
    /\ UNCHANGED << subscribers, eventOutcome, documentVars, processVars >>

\* std::lock_guard: the thread waits until the mutex is free
Lock(t) ==
    /\ threads[t].pc = "lock"
    /\ mutexes[threads[t].held].lockedBy = 0
    /\ mutexes' = [mutexes EXCEPT ![threads[t].held].lockedBy = t]
    /\ threads' = [threads EXCEPT ![t].pc = "read"]
    /\ UNCHANGED << subscribers, editMutex, eventOutcome, documentVars, processVars >>

\* the call reads this->subscribers
Read(t) ==
    /\ threads[t].pc = "read"
    /\ threads' = [threads EXCEPT ![t].read = subscribers, ![t].pc = "store"]
    /\ UNCHANGED << subscribers, editMutex, mutexes, eventOutcome, documentVars, processVars >>

\* the call builds the new queue from the one it has read and stores it
Store(t, overflow) ==
    /\ threads[t].pc = "store"
    /\ IF threads[t].op = "Subscribe"
       THEN /\ subscribers' = subscribe(threads[t].read, threads[t].delegate)
            /\ threads' = [threads EXCEPT ![t].pc = "unlock"]
       ELSE LET edit == unsubscribe(threads[t].read, threads[t].delegate, overflow)
            IN /\ subscribers' = IF edit.value THEN edit.subscribers ELSE subscribers
               /\ threads' = [threads EXCEPT
                                 ![t].pc = IF edit.ended = "heap_corruption"
                                           THEN "aborted" ELSE "unlock"]
    /\ UNCHANGED << editMutex, mutexes, eventOutcome, documentVars, processVars >>

\* the end of the lock scope, also when the call ends with an exception
Unlock(t) ==
    /\ threads[t].pc = "unlock"
    /\ mutexes' = [mutexes EXCEPT ![threads[t].held].lockedBy = 0]
    /\ threads' = [threads EXCEPT ![t].pc = "release"]
    /\ UNCHANGED << subscribers, editMutex, eventOutcome, documentVars, processVars >>

\* releaseMutex(): fetch_sub on ReferenceCount
Release(t) ==
    /\ threads[t].pc = "release"
    /\ LET previousReferenceCount == mutexes[threads[t].held].ReferenceCount
       IN /\ mutexes' = [mutexes EXCEPT
                            ![threads[t].held].ReferenceCount = previousReferenceCount - 1]
          /\ threads' = IF previousReferenceCount = 1
                        THEN [threads EXCEPT ![t].pc = "drop"]
                        ELSE Returns(t)
    /\ UNCHANGED << subscribers, editMutex, eventOutcome, documentVars, processVars >>

\* releaseMutex(): the atomic store of an empty pointer to editMutex
Drop(t) ==
    /\ threads[t].pc = "drop"
    /\ editMutex' = 0
    /\ threads' = Returns(t)
    /\ UNCHANGED << subscribers, mutexes, eventOutcome, documentVars, processVars >>

ConcurrentNext ==
    \E t \in Threads :
        \/ \E call \in ConcurrentCalls : Begin(t, call[1], call[2])
        \/ LoadCount(t)
        \/ Uptick(t)
        \/ Insert(t)
        \/ Lock(t)
        \/ Read(t)
        \/ \E overflow \in {"unnoticed", "corrupts"} : Store(t, overflow)
        \/ Unlock(t)
        \/ Release(t)
        \/ Drop(t)

ConcurrentSpec == InitOn({<< >>}) /\ [][ConcurrentNext]_vars

TypeOK ==
    /\ pc \in {"constructed", "main", "parseName", "parseValue", "parseComment",
               "parseMalformedLine", "done"}
    /\ parsePosition \in {nullptr} \cup (fileBegin .. fileEnd + 1)
    /\ \A i \in 1..Len(lines) : lines[i].Length = Len(lines[i].Contents)

\* ------------------------------------------------------------------------
\* Vocabulary of the properties
\* ------------------------------------------------------------------------
Done == pc = "done"

\* the records the parser submitted, in submission order
Submitted == SelectSeq(lines, LAMBDA l : l.kind # "Synthetic")

RECURSIVE Concatenation(_)
Concatenation(ls) ==
    IF ls = << >> THEN << >> ELSE Head(ls).Contents \o Concatenation(Tail(ls))

\* the bytes of the buffer in [from, from + count), none of them past its end
BufferBytes(from, count) == [i \in 1..count |-> ByteAt(from + i - 1)]

InsideBuffer(l) == (fileBegin <= l.start) /\ (l.start + l.Length <= fileEnd)

\* the bytes of a span of a line; << -1 >> if the span does not lie in the line
SpanOf(l, startIndex, length) ==
    IF (length >= 0) /\ (startIndex + length <= Len(l.Contents))
    THEN SubSeq(l.Contents, startIndex + 1, startIndex + length)
    ELSE << -1 >>

NameOf(l) == SpanOf(l, l.NameStartIndex, l.NameLength)
ValueOf(l) == SpanOf(l, l.ValueStartIndex, l.ValueLength)

\* the addresses visited by following Line::Next from firstLine until it
\* comes back to firstLine (at most n further lines)
RECURSIVE WalkFrom(_, _)
WalkFrom(a, n) ==
    IF (n = 0) \/ (a \notin DOMAIN lineNext) \/ (lineNext[a] = firstLine) THEN << a >>
    ELSE << a >> \o WalkFrom(lineNext[a], n - 1)

LineList == WalkFrom(firstLine, Len(lines))

InLineList(a) == \E i \in 1..Len(LineList) : LineList[i] = a

\* C1: when ParseInto has returned, the bytes of the submitted lines, put
\* together in submission order, are exactly the input buffer.
C1_RoundTrip == Done => (Concatenation(Submitted) = fileContents)

\* C2: when ParseInto has returned, the spans of the submitted lines
\* partition the buffer: the first starts at offset 0, each next one starts
\* where the previous one ended, the last ends at byteCount, none reaches
\* past the end of the buffer, and each line has one classification.
C2_SpansPartitionBuffer ==
    Done =>
        LET n == Len(Submitted) IN
        /\ (n = 0) <=> (byteCount = 0)
        /\ (n > 0) => (Submitted[1].start = fileBegin)
        /\ \A i \in 1..(n - 1) :
              Submitted[i + 1].start = Submitted[i].start + Submitted[i].Length
        /\ (n > 0) => (Submitted[n].start + Submitted[n].Length = fileEnd)
        /\ \A i \in 1..n : InsideBuffer(Submitted[i])
        /\ \A i \in 1..n :
              Submitted[i].kind \in {"Plain", "Section", "Property", "Malformed"}

\* C3: a line classified Malformed stops nothing (the parser goes on to the
\* end of the buffer) and its record holds exactly the line's own bytes:
\* from the line start through the terminating line break, or through the
\* last byte of the buffer when the line is the last one and has none.
C3_MalformedBytesPreserved ==
    \A i \in 1..Len(Submitted) :
        LET l == Submitted[i] IN
        (l.kind = "Malformed") =>
            /\ InsideBuffer(l)
            /\ l.Contents = BufferBytes(l.start, l.Length)
            /\ l.Length > 0
            /\ (l.Contents[l.Length] = LF) \/ (l.start + l.Length = fileEnd)
            /\ \A k \in 1..(l.Length - 1) : l.Contents[k] # LF

\* C4: ParseInto terminates for every input, with the parse position at or
\* behind the end of the buffer.
C4_ParseIntoTerminates == <>(Done /\ parsePosition >= fileEnd)

\* C4 (witness): the parser has returned from a buffer of several lines, one
\* of which sent it through parseName and parseMalformedLine
C4_Witness ==
    /\ Done
    /\ parsePosition >= fileEnd
    /\ Len(Submitted) >= 2
    /\ \E i \in 1..Len(Submitted) : Submitted[i].kind = "Malformed"

\* C5: when ParseInto has returned, walking Next from the document's first
\* line visits the submitted lines in submission order, and the links of the
\* list are consistent (L.Next.Previous = L and L.Previous.Next = L).
C5_SubmittedLinesInList ==
    Done =>
        /\ SelectSeq(LineList, LAMBDA a : a # SyntheticLineAddress)
             = [i \in 1..Len(Submitted) |-> Submitted[i].address]
        /\ \A i \in 1..Len(LineList) :
              LET L == LineList[i] IN
              /\ L \in DOMAIN lineNext /\ L \in DOMAIN linePrevious
              /\ lineNext[L] \in DOMAIN linePrevious /\ linePrevious[lineNext[L]] = L
              /\ linePrevious[L] \in DOMAIN lineNext /\ lineNext[linePrevious[L]] = L

\* the name of the section that is open at the i-th submitted line: the name
\* of the last Section line before it, the empty name if there is none
RECURSIVE OpenSectionAt(_)
OpenSectionAt(i) ==
    IF i <= 1 THEN << >>
    ELSE IF Submitted[i - 1].kind = "Section" THEN NameOf(Submitted[i - 1])
    ELSE OpenSectionAt(i - 1)

\* C6: when ParseInto has returned, every Property line is registered under
\* its name in the property map of the section open at that line, and every
\* entry of a property map is a line of the list.
C6_PropertiesIndexed ==
    Done =>
        /\ \A i \in 1..Len(Submitted) :
              (Submitted[i].kind = "Property") =>
                  /\ OpenSectionAt(i) \in DOMAIN sections
                  /\ \E name \in DOMAIN sections[OpenSectionAt(i)] :
                        sections[OpenSectionAt(i)][name] = Submitted[i].address
        /\ \A sec \in DOMAIN sections : \A name \in DOMAIN sections[sec] :
              InLineList(sections[sec][name])

\* C7: in every state of a document the section index has an entry for the
\* unnamed global section.
C7_GlobalSectionExists == << >> \in DOMAIN sections

\* the names used in the table of ambiguous cases: Foo, Bar, Baz, Woop
TableNames == { <<70, 111, 111>>, <<66, 97, 114>>, <<66, 97, 122>>, <<87, 111, 111, 112>> }

SubmittedOfKind(kind) == {i \in 1..Len(Submitted) : Submitted[i].kind = kind}

\* C8: a physical line "[S] N = V" yields exactly one Section named S and
\* exactly one Property with name N and value V, registered in section S.
C8_SectionThenProperty ==
    \A S, N, V \in Names \cup TableNames :
        (Done /\ fileContents \in WithLineBreak({SectionThenProperty(S, N, V)})) =>
            /\ \E i \in 1..Len(Submitted) :
                  /\ SubmittedOfKind("Section") = {i}
                  /\ NameOf(Submitted[i]) = S
            /\ \E j \in 1..Len(Submitted) :
                  /\ SubmittedOfKind("Property") = {j}
                  /\ NameOf(Submitted[j]) = N
                  /\ ValueOf(Submitted[j]) = V
                  /\ S \in DOMAIN sections
                  /\ N \in DOMAIN sections[S]
                  /\ sections[S][N] = Submitted[j].address

\* C9: a physical line "[A][B]" is submitted as two logical lines, both
\* classified Section, named A and B, and the span of the first one ends
\* immediately before the second opening bracket.
C9_TwoSectionsSplit ==
    \A A, B \in Names \cup TableNames :
        (Done /\ fileContents \in WithLineBreak({TwoSections(A, B)})) =>
            /\ Len(Submitted) = 2
            /\ Submitted[1].kind = "Section" /\ NameOf(Submitted[1]) = A
            /\ Submitted[2].kind = "Section" /\ NameOf(Submitted[2]) = B
            /\ Submitted[1].start = fileBegin
            /\ Submitted[1].Length = Len(A) + 2
            /\ Submitted[2].start = fileBegin + Len(A) + 2

\* a line whose first byte that is not a whitespace is an opening bracket
\* and that has no closing bracket anywhere
OpensSectionWithoutClosing(contents) ==
    /\ \E k \in 1..Len(contents) :
          /\ contents[k] = LBRACKET
          /\ \A j \in 1..(k - 1) : isWhitepace(contents[j])
    /\ \A k \in 1..Len(contents) : contents[k] # RBRACKET

\* C10: a line in which a section bracket is opened and never closed before
\* the line ends is classified Malformed, never Plain or Section.
C10_UnclosedSectionIsMalformed ==
    \A i \in 1..Len(Submitted) :
        OpensSectionWithoutClosing(Submitted[i].Contents)
            => (Submitted[i].kind = "Malformed")

\* ------------------------------------------------------------------------
\* Quotes and comments of a line, as the scan of estimateRequiredMemory()
\* tracks them: the state after the first n bytes of c
\* ------------------------------------------------------------------------
RECURSIVE ScanTo(_, _)
ScanTo(c, n) ==
    IF n = 0 THEN [isInsideQuote |-> FALSE, encounteredComment |-> FALSE]
    ELSE LET before == ScanTo(c, n - 1)
             current == c[n]
         IN IF current = LF
            THEN [isInsideQuote |-> FALSE, encounteredComment |-> FALSE]
            ELSE IF before.isInsideQuote
            THEN [before EXCEPT !.isInsideQuote = (current # QUOTE)]
            ELSE IF ~before.encounteredComment
            THEN CASE current \in {SEMICOLON, HASH} -> [before EXCEPT !.encounteredComment = TRUE]
                   [] current = QUOTE -> [before EXCEPT !.isInsideQuote = TRUE]
                   [] OTHER -> before
            ELSE before

\* the k-th byte of c is neither inside a quote nor inside a comment
Outside(c, k) ==
    /\ ~ScanTo(c, k - 1).isInsideQuote
    /\ ~ScanTo(c, k - 1).encounteredComment

\* the bytes of the buffer a line was made from (without what was read
\* behind the end of the buffer)
OriginalBytes(l) ==
    BufferBytes(l.start, IF l.start + l.Length > fileEnd THEN fileEnd - l.start ELSE l.Length)

\* the positions of the equals signs outside quotes and comments
EqualsSigns(c) == {k \in 1..Len(c) : c[k] = EQUALS /\ Outside(c, k)}

\* C11: a logical line with two equals signs outside quotes and comments is
\* classified Malformed, wherever the second one is.
C11_SecondEqualsIsMalformed ==
    \A i \in 1..Len(Submitted) :
        (Cardinality(EqualsSigns(OriginalBytes(Submitted[i]))) >= 2)
            => (Submitted[i].kind = "Malformed")

\* C11 (witness): a submitted line whose second equals sign directly follows
\* a closed quoted value
C11_Witness ==
    \E i \in 1..Len(Submitted) :
        LET c == OriginalBytes(Submitted[i]) IN
        /\ Submitted[i].kind = "Malformed"
        /\ \E j, k \in EqualsSigns(c) :
              /\ j + 2 < k
              /\ c[j + 1] = QUOTE
              /\ c[k - 1] = QUOTE

\* behind position 'from' of c the first byte that is not a whitespace opens
\* a quote, the quote is closed, and behind it comes a byte that is neither
\* a whitespace nor one of 'allowed'
ContentAfterClosedQuote(c, from, allowed) ==
    \E i, j, k \in (from + 1)..Len(c) :
        /\ i < j /\ j < k
        /\ \A m \in (from + 1)..(i - 1) : isWhitepace(c[m])
        /\ c[i] = QUOTE
        /\ \A m \in (i + 1)..(j - 1) : c[m] \notin {QUOTE, LF}
        /\ c[j] = QUOTE
        /\ \A m \in (j + 1)..(k - 1) : isWhitepace(c[m])
        /\ ~isWhitepace(c[k])
        /\ c[k] \notin allowed

\* the position of the first equals sign outside quotes and comments, if any
FirstEqualsSign(c) ==
    {e \in EqualsSigns(c) : \A k \in EqualsSigns(c) : e <= k}

\* C12: if a quoted name is closed and something other than whitespace or
\* the equals sign follows it, or a quoted value is closed and something
\* other than whitespace or a comment follows it, the line is Malformed.
C12_ContentAfterClosedQuoteIsMalformed ==
    \A i \in 1..Len(Submitted) :
        LET c == OriginalBytes(Submitted[i]) IN
        (\/ ContentAfterClosedQuote(c, 0, {EQUALS})
         \/ \E e \in FirstEqualsSign(c) :
               ContentAfterClosedQuote(c, e, {SEMICOLON, HASH}))
            => (Submitted[i].kind = "Malformed")

\* C12 (witness): a submitted line with a byte behind the closed quote of its
\* value that is no whitespace, equals sign, quote or comment start
C12_Witness ==
    \E i \in 1..Len(Submitted) :
        LET c == OriginalBytes(Submitted[i]) IN
        /\ Submitted[i].kind = "Malformed"
        /\ \E e \in FirstEqualsSign(c) :
              /\ ContentAfterClosedQuote(c, e, {SEMICOLON, HASH, EQUALS, QUOTE})
              /\ ~ContentAfterClosedQuote(c, 0, {EQUALS})

\* the bytes of a line without its line break
WithoutLineBreak(c) ==
    IF (Len(c) > 0) /\ (c[Len(c)] = LF) THEN SubSeq(c, 1, Len(c) - 1) ELSE c

\* a quote is opened in the line and not closed before the line ends
QuoteLeftOpen(c) == ScanTo(WithoutLineBreak(c), Len(WithoutLineBreak(c))).isInsideQuote

\* C13: a line in which a quote is opened and not closed before the line
\* ends is classified Malformed, whether the line ends with a line break or
\* at the end of the file.
C13_UnclosedQuoteIsMalformed ==
    \A i \in 1..Len(Submitted) :
        QuoteLeftOpen(OriginalBytes(Submitted[i]))
            => (Submitted[i].kind = "Malformed")

\* bytes with a meaning of their own for the parser
SpecialBytes == {QUOTE, SEMICOLON, HASH, EQUALS, LBRACKET, RBRACKET, LF}

\* before position k of c a section name is open, or a name or a value has begun
BegunBefore(c, k) == \E j \in 1..(k - 1) : ~isWhitepace(c[j]) /\ c[j] # EQUALS

\* position k of c lies before every equals sign outside quotes and comments
InNamePart(c, k) == \A e \in EqualsSigns(c) : k < e

\* the opening brackets of c outside quotes and comments that stand behind
\* an open section name or a begun name or value
MisplacedOpeningBrackets(c) ==
    {k \in 1..Len(c) : c[k] = LBRACKET /\ Outside(c, k) /\ BegunBefore(c, k)}

\* a line "name = value" whose name has no special byte and whose value has
\* no quote, comment or further equals sign
PlainAssignment(c) ==
    \E e \in FirstEqualsSign(c) :
        /\ \A m \in 1..(e - 1) : c[m] \notin SpecialBytes
        /\ \A m \in (e + 1)..Len(c) : c[m] \notin {QUOTE, SEMICOLON, HASH, EQUALS}

\* the bytes of the value of a plain assignment
BytesAfterEquals(c) == {c[m] : m \in {n \in 1..Len(c) : \E e \in FirstEqualsSign(c) : e < n}}

\* C14 (as claimed): an opening bracket outside quotes and comments that
\* appears while a section name is open or after a name or value has begun
\* makes the line Malformed.
C14_Claimed ==
    \A i \in 1..Len(Submitted) :
        (MisplacedOpeningBrackets(OriginalBytes(Submitted[i])) # {})
            => (Submitted[i].kind = "Malformed")

\* C14 (amended): an opening bracket outside quotes and comments that stands
\* before the equals sign, while a section name is open or after a name has
\* begun, makes the line Malformed; behind the equals sign an opening
\* bracket is a byte of the value and the line is a Property.
C14_MisplacedBracketInNameIsMalformed ==
    \A i \in 1..Len(Submitted) :
        LET c == OriginalBytes(Submitted[i]) IN
        /\ (\E k \in MisplacedOpeningBrackets(c) : InNamePart(c, k))
              => (Submitted[i].kind = "Malformed")
        /\ (PlainAssignment(c) /\ LBRACKET \in BytesAfterEquals(c))
              => (Submitted[i].kind = "Property")

\* C14 (witness): a submitted line without an equals sign in which an
\* opening bracket follows an open section name or a begun name
C14_Witness ==
    \E i \in 1..Len(Submitted) :
        LET c == OriginalBytes(Submitted[i]) IN
        /\ Submitted[i].kind = "Malformed"
        /\ EqualsSigns(c) = {}
        /\ MisplacedOpeningBrackets(c) # {}
        /\ \A k \in 1..Len(c) : c[k] \notin {QUOTE, SEMICOLON, HASH, RBRACKET}

\* the closing brackets of c outside quotes and comments with no opening
\* bracket left open before them
UnmatchedClosingBrackets(c) ==
    {k \in 1..Len(c) :
        /\ c[k] = RBRACKET /\ Outside(c, k)
        /\ Cardinality({j \in 1..(k - 1) : c[j] = LBRACKET /\ Outside(c, j)})
             <= Cardinality({j \in 1..(k - 1) : c[j] = RBRACKET /\ Outside(c, j)})}

\* C15 (as claimed): a closing bracket outside quotes and comments that is
\* not preceded on its line by an open opening bracket makes the line
\* Malformed.
C15_Claimed ==
    \A i \in 1..Len(Submitted) :
        (UnmatchedClosingBrackets(OriginalBytes(Submitted[i])) # {})
            => (Submitted[i].kind = "Malformed")

\* C15 (amended): a closing bracket outside quotes and comments that stands
\* before the equals sign and is not preceded by an open opening bracket
\* makes the line Malformed; behind the equals sign a closing bracket is a
\* byte of the value and the line is a Property.
C15_UnmatchedBracketInNameIsMalformed ==
    \A i \in 1..Len(Submitted) :
        LET c == OriginalBytes(Submitted[i]) IN
        /\ (\E k \in UnmatchedClosingBrackets(c) : InNamePart(c, k))
              => (Submitted[i].kind = "Malformed")
        /\ (PlainAssignment(c) /\ RBRACKET \in BytesAfterEquals(c))
              => (Submitted[i].kind = "Property")

\* C15 (witness): a submitted line without an equals sign and without any
\* opening bracket that has a closing bracket
C15_Witness ==
    \E i \in 1..Len(Submitted) :
        LET c == OriginalBytes(Submitted[i]) IN
        /\ Submitted[i].kind = "Malformed"
        /\ EqualsSigns(c) = {}
        /\ UnmatchedClosingBrackets(c) # {}
        /\ \A k \in 1..Len(c) : c[k] \notin {QUOTE, SEMICOLON, HASH, LBRACKET}

\* C16: a line "[X] = V" yields exactly one logical line, classified
\* Property, no Section line and no registration of a section X.
C16_SectionAssignedIsProperty ==
    \A X, V \in Names \cup TableNames :
        (Done /\ fileContents \in WithLineBreak({SectionAssigned(X, V)})) =>
            /\ Len(Submitted) = 1
            /\ Submitted[1].kind = "Property"
            /\ Submitted[1].type = "PropertyLine"
            /\ SubmittedOfKind("Section") = {}
            /\ X \notin DOMAIN sections

\* C16 (witness): the parser has returned from a buffer "[X] = V" and has
\* submitted a Property line
C16_Witness ==
    /\ Done
    /\ \E X, V \in Names : fileContents = SectionAssigned(X, V) \o <<LF>>
    /\ Len(Submitted) = 1
    /\ Submitted[1].kind = "Property"

\* line b is line a with a comment appended: a, then ';' or '#' outside a
\* quote, then any bytes
WithCommentAppended(a, b) ==
    /\ Len(b) > Len(a)
    /\ SubSeq(b, 1, Len(a)) = a
    /\ b[Len(a) + 1] \in {SEMICOLON, HASH}
    /\ Outside(b, Len(a) + 1)

\* the bytes of c before its comment (all of c if it has none)
BeforeComment(c) ==
    LET starts == {k \in 1..Len(c) : c[k] \in {SEMICOLON, HASH} /\ Outside(c, k)}
    IN IF starts = {} THEN c
       ELSE SubSeq(c, 1, (CHOOSE k \in starts : \A m \in starts : k <= m) - 1)

\* c is a section declaration "[X]" with a name X without special bytes
\* and whitespace around it at most
IsSectionDeclaration(c) ==
    \E i, j \in 1..Len(c) :
        /\ i + 1 < j
        /\ c[i] = LBRACKET /\ c[j] = RBRACKET
        /\ \A m \in 1..(i - 1) : isWhitepace(c[m])
        /\ \A m \in (i + 1)..(j - 1) : c[m] \notin SpecialBytes /\ ~isWhitepace(c[m])
        /\ \A m \in (j + 1)..Len(c) : isWhitepace(c[m])

\* C17: comments are inert for the classification.  A line that is another
\* submitted line plus a comment has the same classification and the same
\* name and value spans; a section declaration followed by a comment is a
\* Section and a plain assignment followed by a comment is a Property.
C17_CommentsInert ==
    /\ \A i, j \in 1..Len(Submitted) :
          WithCommentAppended(WithoutLineBreak(OriginalBytes(Submitted[i])),
                              WithoutLineBreak(OriginalBytes(Submitted[j])))
          => /\ Submitted[i].kind = Submitted[j].kind
             /\ Submitted[i].NameStartIndex = Submitted[j].NameStartIndex
             /\ Submitted[i].NameLength = Submitted[j].NameLength
             /\ Submitted[i].ValueStartIndex = Submitted[j].ValueStartIndex
             /\ Submitted[i].ValueLength = Submitted[j].ValueLength
    /\ \A i \in 1..Len(Submitted) :
          LET c == WithoutLineBreak(OriginalBytes(Submitted[i])) IN
          /\ IsSectionDeclaration(BeforeComment(c)) => (Submitted[i].kind = "Section")
          /\ PlainAssignment(BeforeComment(c)) => (Submitted[i].kind = "Property")

\* the scan is inside a quote and looks at a byte of the buffer
ScanningInQuote ==
    /\ pc \in {"parseName", "parseValue"}
    /\ isInQuote
    /\ parsePosition < fileEnd

\* C18: while the scan is inside a quote, a step over '[', ']', '=', ';' or
\* '#' changes none of the section-open, section-found, equals-found and
\* malformed state, enters neither a comment nor a malformed line, and stays
\* in the quote; a step over a byte of the buffer leaves quote mode only if
\* the byte is the closing quote or a newline.
C18_QuoteKeepsSpecialBytesInert ==
    [][ScanningInQuote =>
          LET current == ByteAt(parsePosition) IN
          /\ (current \in {LBRACKET, RBRACKET, EQUALS, SEMICOLON, HASH}) =>
                /\ isInSection' = isInSection
                /\ sectionFound' = sectionFound
                /\ equalsSignFound' = equalsSignFound
                /\ lineIsMalformed' = lineIsMalformed
                /\ pc' = pc
                /\ isInQuote'
                /\ parsePosition' = parsePosition + 1
                /\ lines' = lines
          /\ (current \notin {QUOTE, LF}) => (isInQuote' /\ pc' = pc)
          /\ (current = QUOTE) => (~isInQuote' /\ pc' = pc)
          /\ (current = LF) => (pc' = "main" /\ lineIsMalformed')
      ]_vars

\* parseName() stands inside a quote, right behind a '[', ']', '=', ';' or
\* '#' it has stepped over, and looks at a further such byte
C18_Witness ==
    /\ ScanningInQuote
    /\ pc = "parseName"
    /\ parsePosition > fileBegin + 1
    /\ ByteAt(parsePosition - 2) = QUOTE
    /\ ByteAt(parsePosition - 1) \in {LBRACKET, RBRACKET, EQUALS, SEMICOLON, HASH}
    /\ ByteAt(parsePosition) \in {LBRACKET, RBRACKET, EQUALS, SEMICOLON, HASH}

\* c holds nothing but whitespace and/or a comment
BlankOrCommentOnly(c) ==
    \A m \in 1..Len(BeforeComment(c)) : isWhitepace(c[m])

\* C19: a submitted line is a plain Line if and only if it consists solely
\* of whitespace and/or a comment; every line with other content is a
\* Property, a Section or a Malformed line.
C19_PlainIffBlankOrComment ==
    \A i \in 1..Len(Submitted) :
        LET c == WithoutLineBreak(OriginalBytes(Submitted[i])) IN
        /\ (Submitted[i].kind = "Plain") <=> BlankOrCommentOnly(c)
        /\ ~BlankOrCommentOnly(c) => (Submitted[i].kind \in {"Property", "Section", "Malformed"})

\* C20: in every Section and Property line the name span lies inside the
\* line's bytes, and in every Property line so does the value span.
C20_SpansInsideLine ==
    \A i \in 1..Len(Submitted) :
        LET l == Submitted[i] IN
        /\ (l.kind \in {"Section", "Property"}) =>
              (l.NameStartIndex + l.NameLength <= l.Length)
        /\ (l.kind = "Property") =>
              (l.ValueStartIndex + l.ValueLength <= l.Length)

\* c without its leading and trailing whitespace
Trimmed(c) ==
    LET solid == {k \in 1..Len(c) : ~isWhitepace(c[k])}
    IN IF solid = {} THEN << >>
       ELSE SubSeq(c, CHOOSE k \in solid : \A m \in solid : k <= m,
                      CHOOSE k \in solid : \A m \in solid : m <= k)

\* c without the quotes that enclose it, if quotes enclose it
Unquoted(c) ==
    IF (Len(c) >= 2) /\ (c[1] = QUOTE) /\ (c[Len(c)] = QUOTE)
    THEN SubSeq(c, 2, Len(c) - 1) ELSE c

\* the name and the value as written in the line c whose first equals sign
\* is at e: what stands before it, and what stands between it and the comment
WrittenName(c, e) == Unquoted(Trimmed(SubSeq(c, 1, e - 1)))
WrittenValue(c, e) == Unquoted(Trimmed(SubSeq(BeforeComment(c), e + 1, Len(BeforeComment(c)))))

\* a Property line that is an assignment without brackets in front of the
\* equals sign and without an open quote
ProperAssignment(l) ==
    LET c == WithoutLineBreak(OriginalBytes(l)) IN
    /\ l.kind = "Property"
    /\ ~QuoteLeftOpen(c)
    /\ \E e \in FirstEqualsSign(c) :
          \A m \in 1..(e - 1) : c[m] \notin {LBRACKET, RBRACKET}

\* C21: in every Property line the name span holds exactly the name and the
\* value span exactly the value, each without the whitespace around it and
\* without enclosing quotes, and the line's own bytes still hold all of it.
C21_SpansAreNameAndValue ==
    \A i \in 1..Len(Submitted) :
        LET l == Submitted[i]
            c == WithoutLineBreak(OriginalBytes(l))
        IN ProperAssignment(l) =>
              \E e \in FirstEqualsSign(c) :
                  /\ NameOf(l) = WrittenName(c, e)
                  /\ ValueOf(l) = WrittenValue(c, e)
                  /\ SubSeq(l.Contents, 1, Len(c)) = c

\* C22: when a section name is declared on several lines, the section index
\* holds an entry for that name (one, as the index is a map), every
\* declaration line is in the line list, and the properties read after a
\* later declaration are registered in that entry.
C22_RepeatedSectionIsOneEntry ==
    Done =>
        \A i, j \in SubmittedOfKind("Section") :
            (i < j /\ NameOf(Submitted[i]) = NameOf(Submitted[j])) =>
                /\ NameOf(Submitted[i]) \in DOMAIN sections
                /\ InLineList(Submitted[i].address)
                /\ InLineList(Submitted[j].address)
                /\ \A k \in SubmittedOfKind("Property") :
                      (k > j /\ OpenSectionAt(k) = NameOf(Submitted[j])) =>
                          \E name \in DOMAIN sections[NameOf(Submitted[i])] :
                              sections[NameOf(Submitted[i])][name] = Submitted[k].address

\* the positions of the line breaks of the buffer
LineBreaks == {k \in 1..Len(fileContents) : fileContents[k] = LF}

\* the number of bytes of the buffer up to and including its last line break
UpToLastLineBreak ==
    IF LineBreaks = {} THEN 0 ELSE CHOOSE k \in LineBreaks : \A m \in LineBreaks : m <= k

\* the buffer is not empty and does not end with a line break
EndsWithoutLineBreak ==
    (fileContents # << >>) /\ (fileContents[Len(fileContents)] # LF)

\* C23: when ParseInto has returned on a buffer that is not empty and does
\* not end with '\n', the last submitted line is exactly the bytes after the
\* last '\n'; on a buffer that is empty or ends with '\n' there is one line
\* per '\n' and none after the last.
C23_FinalLineSubmitted ==
    Done =>
        IF EndsWithoutLineBreak
        THEN /\ Len(Submitted) = Cardinality(LineBreaks) + 1
             /\ Submitted[Len(Submitted)].start = fileBegin + UpToLastLineBreak
             /\ Submitted[Len(Submitted)].Contents
                   = SubSeq(fileContents, UpToLastLineBreak + 1, Len(fileContents))
        ELSE Len(Submitted) = Cardinality(LineBreaks)

\* ------------------------------------------------------------------------
\* The allocator
\* ------------------------------------------------------------------------
\* the bytes a record takes: its header with padding and its payload
TotalByteCount(l) ==
    getSizePlusAlignmentPadding(SizeOfRecord(l.type), AlignOfLine) + l.Length

\* the record was carved from a chunk / was given a block of its own
ChunkCarved(l) == \E k \in 1..Len(loadedLinesMemory) : loadedLinesMemory[k] = l.address.block
Dedicated(l) == l.address.block \in createdLinesMemory

\* C24: every pointer allocateChunked<T> returned is aligned to alignof(T),
\* whatever was allocated before it (a block from new[] starts aligned, so
\* the pointer is aligned when its offset in the block is).
C24_ReturnedPointersAligned ==
    \A i \in 1..Len(Submitted) : Submitted[i].address.offset % AlignOfLine = 0

\* the blocks the heap has handed out
HeapBlocks ==
    createdLinesMemory \cup {loadedLinesMemory[k] : k \in 1..Len(loadedLinesMemory)}

C26_CarvedInsideChunk ==
    \A i \in 1..Len(Submitted) :
        ChunkCarved(Submitted[i]) =>
            /\ Submitted[i].address.offset >= 0
            /\ Submitted[i].address.offset + TotalByteCount(Submitted[i]) <= AllocationChunkSize

\* a chunk was filled up to less than a record header before its end, and
\* the request after that was served from a second chunk
C26_Witness ==
    /\ Len(loadedLinesMemory) >= 2
    /\ \E i \in 1..Len(Submitted) :
          /\ Submitted[i].address.block = loadedLinesMemory[1]
          /\ Submitted[i].address.offset > 0
          /\ Submitted[i].address.offset + TotalByteCount(Submitted[i])
                > AllocationChunkSize - SizeOfLine

\* ------------------------------------------------------------------------
\* Estimator and parser
\* ------------------------------------------------------------------------
\* the decisions of the build pass: for each submitted line the type of its
\* record and the addresses its bytes were taken from
BuildDecisions ==
    [i \in 1..Len(Submitted) |->
        [ type |-> Submitted[i].type, start |-> Submitted[i].start,
          end |-> Submitted[i].start + Submitted[i].Length ]]

\* C27: when ParseInto has returned, the estimator has ended the same number
\* of lines at the same byte offsets and with the same record types as the
\* parser submitted.
C27_EstimatorMatchesParser ==
    Done => (estimateRequiredMemory.ended = BuildDecisions)

\* the bytes the build pass takes for the records ls: for each the record
\* size with its padding plus the line's byte length
RECURSIVE ConsumedBy(_)
ConsumedBy(ls) ==
    IF ls = << >> THEN 0 ELSE TotalByteCount(Head(ls)) + ConsumedBy(Tail(ls))

\* C28: when ParseInto has returned, the byte count estimateRequiredMemory
\* returns for the buffer is at least the bytes the build pass has taken
\* for its submitted lines.
C28_EstimateCoversBuild ==
    Done => (estimateRequiredMemory.ByteCount >= ConsumedBy(Submitted))

\* ------------------------------------------------------------------------
\* The default-constructed document
\* ------------------------------------------------------------------------
\* the records kept for the line at address a
RecordsAt(a) == {i \in 1..Len(lines) : lines[i].address = a}

\* C31: a default-constructed document (before a parser has run on it) has
\* a line list of exactly one line, whose bytes are the platform's line
\* break, linked to itself in both directions, and the block of that line
\* is in createdLinesMemory, which the destructor releases.
C31_DefaultDocument ==
    (pc = "constructed") =>
        /\ LineList = << firstLine >>
        /\ firstLine \in DOMAIN lineNext /\ lineNext[firstLine] = firstLine
        /\ firstLine \in DOMAIN linePrevious /\ linePrevious[firstLine] = firstLine
        /\ \E i \in RecordsAt(firstLine) :
              /\ lines[i].Contents \in {<<LF>>, <<CR, LF>>}
              /\ lines[i].Length = Len(lines[i].Contents)
        /\ firstLine.offset = 0
        /\ firstLine.block \in createdLinesMemory

\* a document right after its default constructor, handed to a parser that
\* has not started
C31_Witness ==
    /\ pc = "constructed"
    /\ InLineList(firstLine)
    /\ Len(lines) = 1
    /\ lines[1].kind = "Synthetic"

\* ------------------------------------------------------------------------
\* The lifecycle of a Process
\* ------------------------------------------------------------------------
\* a child has been started whose process handle nobody has closed yet
StartedNotJoined == \E handle \in 1..Len(kernel) : kernel[handle].open

\* the step is a call of Process::Start(), IsRunning(), Wait() or Join()
StartCalled == \E trouble \in Troubles : Start(trouble)
IsRunningCalled == \E trouble \in Troubles : IsRunning(trouble)
WaitCalled ==
    \E trouble \in Troubles, exits \in BOOLEAN, during \in ExitCodes :
        Wait(trouble, exits, during)
JoinCalled ==
    \E trouble \in Troubles, exits \in BOOLEAN, during \in ExitCodes :
        Join(trouble, exits, during)

\* C32: Wait() and Join() on a process that is not started-and-not-yet-joined
\* (never started, or joined already) end with std::logic_error and change
\* nothing; a Join() that succeeds finds the process started and leaves it
\* joined, so a child is joined successfully at most once.
C32_WaitAndJoinNeedStartedProcess ==
    [][ /\ ((WaitCalled \/ JoinCalled) /\ ~StartedNotJoined) =>
              /\ outcome'.ended = "logic_error"
              /\ UNCHANGED << impl, kernel >>
        /\ (JoinCalled /\ outcome'.ended = "returned") =>
              /\ StartedNotJoined
              /\ ~StartedNotJoined'
              /\ \A handle \in 1..Len(kernel) :
                    ~kernel[handle].open => ~kernel'[handle].open ]_vars

\* a second Join() after a successful one has thrown std::logic_error
C32_Witness ==
    /\ outcome = Thrown("Join", "logic_error")
    /\ Len(kernel) = 1
    /\ kernel[1].state = "exited" /\ ~kernel[1].open
    /\ impl.ChildProcessHandle = INVALID_HANDLE_VALUE
    /\ impl.StdoutHandle = 1

C38_StartAllOrNothing ==
    [][ StartCalled =>
          /\ StartedNotJoined =>
                /\ outcome' = Thrown("Start", "logic_error")
                /\ UNCHANGED << impl, kernel >>
          /\ (~StartedNotJoined /\ outcome'.ended # "returned") =>
                /\ outcome'.ended = "system_error"
                /\ UNCHANGED impl
                /\ impl'.ChildProcessHandle = INVALID_HANDLE_VALUE
                /\ ~StartedNotJoined'
          /\ outcome'.ended = "returned" =>
                /\ ~StartedNotJoined
                /\ StartedNotJoined'
                /\ impl'.ChildProcessHandle \in 1..Len(kernel')
                /\ kernel'[impl'.ChildProcessHandle].open ]_vars

\* a second Start() has succeeded after the first child was joined
C38_Witness ==
    /\ outcome = Returned("Start", 0)
    /\ Len(kernel) = 2
    /\ kernel[1].state = "exited" /\ ~kernel[1].open
    /\ impl.ChildProcessHandle = 2
    /\ kernel[2].open

\* ------------------------------------------------------------------------
\* Allocations of one document
\* ------------------------------------------------------------------------
\* the bytes of one block that the allocation of record l covers
AllocatedRange(l) == l.address.offset .. (l.address.offset + TotalByteCount(l) - 1)

\* C36: the byte ranges [pointer, pointer + padded header size + payload) of
\* all blocks allocateChunked has returned for one document are pairwise
\* disjoint.
C36_AllocationsDisjoint ==
    \A i, j \in 1..Len(Submitted) :
        (i # j /\ Submitted[i].address.block = Submitted[j].address.block) =>
            AllocatedRange(Submitted[i]) \cap AllocatedRange(Submitted[j]) = {}

\* three allocations lie back to back in one chunk, the middle one with a
\* payload
C36_Witness ==
    \E i, j, k \in 1..Len(Submitted) :
        /\ ChunkCarved(Submitted[i])
        /\ Submitted[j].address.block = Submitted[i].address.block
        /\ Submitted[k].address.block = Submitted[i].address.block
        /\ Submitted[j].Length > 0
        /\ Submitted[j].address.offset
              = Submitted[i].address.offset + TotalByteCount(Submitted[i])
        /\ Submitted[k].address.offset
              = Submitted[j].address.offset + TotalByteCount(Submitted[j])

\* ------------------------------------------------------------------------
\* The room left in the current chunk
\* ------------------------------------------------------------------------
\* the number of bytes of block b that allocations cover, counted from its start
RECURSIVE UsedBytes(_, _)
UsedBytes(b, n) ==
    IF n = 0 THEN 0
    ELSE LET rest == UsedBytes(b, n - 1)
             end == lines[n].address.offset + TotalByteCount(lines[n])
         IN IF lines[n].kind # "Synthetic" /\ lines[n].address.block = b /\ end > rest
            THEN end ELSE rest

\* the step took a record from the current chunk: a record was added and no
\* block was allocated
CarvedFromCurrentChunk ==
    /\ Len(lines') > Len(lines)
    /\ loadedLinesMemory' = loadedLinesMemory
    /\ createdLinesMemory' = createdLinesMemory

\* C37: whenever allocateChunked carves from the current chunk, the target
\* owns at least one chunk and remainingChunkByteCount is the free tail of
\* the target's newest chunk, also when ParseInto() runs more than once or on
\* more than one document.
C37_RemainingIsTailOfNewestChunk ==
    [][ CarvedFromCurrentChunk =>
          /\ Len(loadedLinesMemory) >= 1
          /\ remainingChunkByteCount
                = AllocationChunkSize
                    - UsedBytes(loadedLinesMemory[Len(loadedLinesMemory)], Len(lines)) ]_vars

\* ------------------------------------------------------------------------
\* Lines are parsed independently of one another
\* ------------------------------------------------------------------------
\* what the parser decided about a line: the type and kind of its record and
\* its spans
DecisionOn(l) ==
    << l.type, l.kind, l.NameStartIndex, l.NameLength, l.ValueStartIndex, l.ValueLength >>

\* C35: the classification and the spans of a line depend only on the bytes
\* of its own physical line: a line break ends the line wherever it stands
\* (every record holds exactly one, as its last byte), and two lines of the
\* same bytes get the same classification and the same spans, whatever
\* complete lines stand in front of them.
C35_LineDependsOnOwnBytesOnly ==
    Done =>
        /\ \A i \in 1..Len(Submitted) :
              /\ Submitted[i].Length >= 1
              /\ \A k \in 1..Submitted[i].Length :
                    (Submitted[i].Contents[k] = LF) <=> (k = Submitted[i].Length)
        /\ \A i, j \in 1..Len(Submitted) :
              Submitted[i].Contents = Submitted[j].Contents =>
                  DecisionOn(Submitted[i]) = DecisionOn(Submitted[j])

\* ------------------------------------------------------------------------
\* Unsubscribing from a ConcurrentEvent
\* ------------------------------------------------------------------------
\* the subscribers of a queue, none for the empty pointer
SubscribersOf(queue) == IF queue.present THEN queue.Subscribers ELSE << >>

\* a list without its first entry that equals the delegate
RECURSIVE WithoutFirst(_, _)
WithoutFirst(list, delegate) ==
    IF list = << >> THEN << >>
    ELSE IF Head(list) = delegate THEN Tail(list)
    ELSE << Head(list) >> \o WithoutFirst(Tail(list), delegate)

IsSubscribed(delegate) ==
    \E i \in 1..Len(SubscribersOf(subscribers)) : SubscribersOf(subscribers)[i] = delegate

\* C34: Unsubscribe(delegate) of a subscribed delegate returns true and
\* leaves the old list without its first matching entry, the others in their
\* old order; for a delegate that is not subscribed (also when there never
\* were subscribers, or all have been removed) it returns false and leaves
\* the list unchanged.
C34_UnsubscribeRemovesFirstMatch ==
    [][ \A delegate \in Delegates :
          (\E overflow \in {"unnoticed", "corrupts"} : Unsubscribe(delegate, overflow)) =>
              IF IsSubscribed(delegate)
              THEN /\ eventOutcome'.ended = "returned"
                   /\ eventOutcome'.value = TRUE
                   /\ SubscribersOf(subscribers')
                         = WithoutFirst(SubscribersOf(subscribers), delegate)
              ELSE /\ eventOutcome'.ended = "returned"
                   /\ eventOutcome'.value = FALSE
                   /\ SubscribersOf(subscribers') = SubscribersOf(subscribers) ]_vars

\* ------------------------------------------------------------------------
\* The edit mutex of a ConcurrentEvent
\* ------------------------------------------------------------------------
\* the threads between the return of acquireMutex() and releaseMutex() (a
\* thread that was aborted inside the lock scope has never left it)
Holding ==
    {t \in Threads :
        threads[t].pc \in {"lock", "read", "store", "unlock", "release", "aborted"}}

\* the threads inside the lock scope
Editing == {t \in Threads : threads[t].pc \in {"read", "store", "unlock", "aborted"}}

\* the mutexes that are published or held and have a reference count above 0
LiveMutexes ==
    {m \in 1..Len(mutexes) :
        /\ mutexes[m].ReferenceCount >= 1
        /\ (editMutex = m) \/ (\E t \in Holding : threads[t].held = m)}

\* C39: under every interleaving at most one SharedMutex is live, every
\* thread between acquireMutex() and releaseMutex() holds that instance (its
\* reference count is the number of these threads, so never 0), and at most
\* one thread at a time is inside the lock scope that replaces the list.
C39_OneLiveEditMutex ==
    /\ Cardinality(LiveMutexes) <= 1
    /\ \A t \in Holding :
          /\ threads[t].held \in LiveMutexes
          /\ threads[t].held = editMutex
          /\ mutexes[threads[t].held].ReferenceCount = Cardinality(Holding)
    /\ Cardinality(Editing) <= 1
    /\ \A t \in Editing : mutexes[threads[t].held].lockedBy = t

\* a thread that had made a mutex of its own found another one published
\* and shares that one with the thread that holds it locked
C39_Witness ==
    /\ Cardinality(Holding) = 2
    /\ Cardinality(Editing) = 1
    /\ Len(mutexes) = 2
    /\ editMutex # 0
    /\ mutexes[editMutex].ReferenceCount = 2
    /\ \E t \in Holding : threads[t].newEditMutex \notin {0, editMutex}

====
